---------------------------- MODULE Spec2Model ----------------------------
(***************************************************************************)
(* Software rasterization backend of opentoys/canvas (std_image.go and the *)
(* backend types).  float64 values are modelled as exact rationals <<n,d>> *)
(* with d > 0; every input of the model lies on a dyadic or small-         *)
(* denominator grid, where the comparisons and roundings of the code give  *)
(* the same result in float64 and in exact arithmetic.  8-bit channels     *)
(* keep their width (uint8 conversions are taken modulo 256).              *)
(*                                                                         *)
(* A local of the code that is read more than once is a parameter of a     *)
(* local operator here, applied to the expression the code assigns to it.  *)
(***************************************************************************)
EXTENDS Integers, Sequences, FiniteSets, TLC

(***************************************************************************)
(* Bounds of the model.                                                    *)
(***************************************************************************)
Width == 4
Height == 4
MaxOps == 2
MaxMSAA == 2

(***************************************************************************)
(* Exact rationals standing for float64.                                   *)
(***************************************************************************)
Abs(i) == IF i < 0 THEN -i ELSE i

RECURSIVE Gcd(_, _)
Gcd(a, b) == IF b = 0 THEN a ELSE Gcd(b, a % b)

Norm(n, d) ==
    LET Reduce(s, g) == IF g = 0 THEN <<0, 1>> ELSE <<(s * n) \div g, (s * d) \div g>>
    IN  Reduce(IF d < 0 THEN -1 ELSE 1, Gcd(Abs(n), Abs(d)))

R(i) == <<i, 1>>
Half == <<1, 2>>
RAdd(a, b) == Norm(a[1] * b[2] + b[1] * a[2], a[2] * b[2])
RSub(a, b) == Norm(a[1] * b[2] - b[1] * a[2], a[2] * b[2])
RMul(a, b) == Norm(a[1] * b[1], a[2] * b[2])
RDiv(a, b) == Norm(a[1] * b[2], a[2] * b[1])
RLt(a, b) == a[1] * b[2] < b[1] * a[2]
RLe(a, b) == a[1] * b[2] <= b[1] * a[2]
RGt(a, b) == RLt(b, a)
RGe(a, b) == RLe(b, a)
REq(a, b) == a[1] * b[2] = b[1] * a[2]
RMin(a, b) == IF RLt(b, a) THEN b ELSE a
RMax(a, b) == IF RGt(b, a) THEN b ELSE a
RAbs(a) == <<Abs(a[1]), a[2]>>
\* math.Floor, math.Ceil and math.Round (half away from zero), as integers
Floor(a) == a[1] \div a[2]
Ceil(a) == -((-a[1]) \div a[2])
Round(a) ==
    IF a[1] >= 0 THEN (2 * a[1] + a[2]) \div (2 * a[2])
    ELSE -((2 * (-a[1]) + a[2]) \div (2 * a[2]))
\* int(f): conversion of a float64 to int truncates toward zero
Trunc(a) == IF a[1] >= 0 THEN a[1] \div a[2] ELSE -((-a[1]) \div a[2])
\* uint8(i) of an integer
U8(i) == i % 256

\* a value as memory holds it: computed once when it is written, read many times
Stored(f) == f @@ <<>>

(***************************************************************************)
(* Colours: color.RGBA as <<R, G, B, A>>, color.Alpha as its A.            *)
(***************************************************************************)
Transparent == <<0, 0, 0, 0>>

\* mix blends src over dest; the Go code reads both through Color.RGBA(),
\* which for color.RGBA yields c * 0x101, so c16 / 65535 = c / 255.
MixChannel(c1, c2, a1) ==
    \* uint8(math.Round(((c1/255 - c2/255) * (a1/255) + c2/255) * 255))
    U8(Round(<<(c1 - c2) * a1 + 255 * c2, 255>>))

MixAlpha(a1, a2) ==
    \* uint8(math.Round(math.Max((a1-a2)*a1+a2, a2) * 255))
    U8(Round(RMax(<<(a1 - a2) * a1 + 255 * a2, 255>>, R(a2))))

mix(src, dest) ==
    << MixChannel(src[1], dest[1], src[4]),
       MixChannel(src[2], dest[2], src[4]),
       MixChannel(src[3], dest[3], src[4]),
       MixAlpha(src[4], dest[4]) >>

\* alphaColor scales the colour channels by the mask alpha and forces A = 255
alphaColor(col, alpha) ==
    << U8(Trunc(<<col[1] * alpha, 255>>)),
       U8(Trunc(<<col[2] * alpha, 255>>)),
       U8(Trunc(<<col[3] * alpha, 255>>)),
       255 >>

(***************************************************************************)
(* BackendGradient: a sequence of stops [pos |-> rational, col |-> colour]. *)
(***************************************************************************)
MinOf(S) == CHOOSE i \in S : \A j \in S : i <= j

\* index of the first stop whose Pos exceeds pos (the loop's break), 0 if none
afterIdx(g, pos) ==
    LET First(S) == IF S = {} THEN 0 ELSE MinOf(S)
    IN  First({i \in 1..Len(g) : RGt(g[i].pos, pos)})

\* the interpolated channel converted without math.Round
LerpChannelTrunc(cb, ca, p) == U8(Trunc(RAdd(RMul(R(ca - cb), p), R(cb))))

LerpChannel(cb, ca, p) ==
    \* uint8(math.Round((after - before) * p + before))
    U8(Round(RAdd(RMul(R(ca - cb), p), R(cb))))

ColorAt(g, pos) ==
    LET Lerp(before, after, p) ==
            << LerpChannel(before.col[1], after.col[1], p),
               LerpChannel(before.col[2], after.col[2], p),
               LerpChannel(before.col[3], after.col[3], p),
               LerpChannel(before.col[4], after.col[4], p) >>
        Between(before, after) ==
            Lerp(before, after, RDiv(RSub(pos, before.pos), RSub(after.pos, before.pos)))
        \* ai is afterIdx + 1 (0: no stop lies after pos); beforeIdx + 1 is ai - 1
        Stops(ai) ==
            IF ai = 1 THEN g[1].col
            ELSE IF ai = 0 THEN g[Len(g)].col
            ELSE Between(g[ai - 1], g[ai])
    IN  IF Len(g) = 0 THEN Transparent
        ELSE IF Len(g) = 1 THEN g[1].col
        ELSE Stops(afterIdx(g, pos))

\* the divisors ColorAt(g, pos) divides by: after.Pos - before.Pos when it interpolates
ColorAtDivisors(g, pos) ==
    IF Len(g) < 2 \/ afterIdx(g, pos) < 2 THEN {}
    ELSE {RSub(g[afterIdx(g, pos)].pos, g[afterIdx(g, pos) - 1].pos)}

(***************************************************************************)
(* Paint evaluator.  A style is [kind, color, blur, stops, from, to]; the  *)
(* solid and the linear-gradient variants are modelled.  The normalised    *)
(* direction divided once more by its length is dir / (dir . dir).         *)
(***************************************************************************)
\* a variant that projects the position itself, not its offset from style.from
fillFuncFromOrigin(style, x, y) ==
    LET Along(dir) ==
            ColorAt(style.stops,
                    RDiv(RAdd(RMul(x, dir[1]), RMul(y, dir[2])),
                         RAdd(RMul(dir[1], dir[1]), RMul(dir[2], dir[2]))))
    IN  IF style.kind = "linear"
        THEN Along(<<RSub(style.to[1], style.from[1]), RSub(style.to[2], style.from[2])>>)
        ELSE style.color

fillFunc(style, x, y) ==
    LET Along(dir, pos) ==
            ColorAt(style.stops,
                    RDiv(RAdd(RMul(pos[1], dir[1]), RMul(pos[2], dir[2])),
                         RAdd(RMul(dir[1], dir[1]), RMul(dir[2], dir[2]))))
    IN  IF style.kind = "linear"
        THEN Along(<<RSub(style.to[1], style.from[1]), RSub(style.to[2], style.from[2])>>,
                   <<RSub(x, style.from[1]), RSub(y, style.from[2])>>)
        ELSE style.color

(***************************************************************************)
(* Geometry rasterizer.  A point is <<x, y>> of rationals.                 *)
(***************************************************************************)
\* the edge from p to q evaluated at scanline y: (q.x - p.x) * ((y - p.y) / (q.y - p.y)) + p.x
EdgeX(p, q, y) ==
    RAdd(RMul(RSub(q[1], p[1]), RDiv(RSub(y, p[2]), RSub(q[2], p[2]))), p[1])

\* the three vertices sorted by y, with the code's three conditional swaps
SortByY(tri) ==
    LET Third(s) == IF RGt(s[1][2], s[2][2]) THEN <<s[2], s[1], s[3]>> ELSE s
        Second(s) == IF RGt(s[2][2], s[3][2]) THEN Third(<<s[1], s[3], s[2]>>) ELSE s
    IN  Second(IF RGt(tri[1][2], tri[2][2]) THEN <<tri[2], tri[1], tri[3]>> ELSE tri)

triangleLR(tri, y) ==
    LET Ordered(l, r) ==
            IF RGt(l, r) THEN [l |-> r, r |-> l, out |-> FALSE]
            ELSE [l |-> l, r |-> r, out |-> FALSE]
        Bounds(a, b, c) ==
            IF RLe(y, a[2]) THEN [l |-> a[1], r |-> a[1], out |-> TRUE]
            ELSE IF RGt(y, c[2]) THEN [l |-> c[1], r |-> c[1], out |-> TRUE]
            ELSE Ordered(IF RGe(y, a[2]) /\ RLe(y, b[2]) /\ RLt(a[2], b[2])
                         THEN EdgeX(a, b, y) ELSE EdgeX(b, c, y),
                         EdgeX(a, c, y))
        Sorted(s) == Bounds(s[1], s[2], s[3])
    IN  Sorted(SortByY(tri))

Min3(a, b, c) == RMin(RMin(a, b), c)
Max3(a, b, c) == RMax(RMax(a, b), c)

\* the scanline range minY..maxY after the clamps of the fill routines, or
\* the empty range when the routine returns early
ScanRows(ys, bh) ==
    LET Range(lo, hi) ==
            IF lo >= bh \/ hi < 0 THEN {}
            ELSE (IF lo < 0 THEN 0 ELSE lo) .. (IF hi >= bh THEN bh - 1 ELSE hi)
    IN  Range(Floor(ys[1]), Ceil(ys[2]))

\* the centre tested against r only
SpanLeftOpen(l, r, y) ==
    {<<x, y>> : x \in {x \in Floor(l)..Ceil(r) : ~RGe(RAdd(R(x), Half), r)}}

\* the pixels of one scanline whose centre x + 0.5 lies in [l, r)
SpanPixels(l, r, y) ==
    LET Centre(fx) == ~(RLt(fx, l) \/ RGe(fx, r))
    IN  {<<x, y>> : x \in {x \in Floor(l)..Ceil(r) : Centre(RAdd(R(x), Half))}}

RowNoAA(lr, bw, y) ==
    LET Span(l, r) == IF RGe(l, r) THEN {} ELSE SpanPixels(l, r, y)
    IN  IF lr.out THEN {}
        ELSE IF (~RLt(lr.l, R(0)) /\ RGt(lr.l, R(bw))) \/ RLt(lr.r, R(0)) THEN {}
        ELSE Span(IF RLt(lr.l, R(0)) THEN R(0) ELSE lr.l,
                  IF RGt(lr.r, R(bw)) THEN R(bw) ELSE lr.r)

\* the set of pixels fn is called on
fillTriangleNoAA(tri, bw, bh) ==
    UNION {RowNoAA(triangleLR(tri, RAdd(R(y), Half)), bw, y) :
             y \in ScanRows(<<Min3(tri[1][2], tri[2][2], tri[3][2]),
                              Max3(tri[1][2], tri[2][2], tri[3][2])>>, bh)}

\* four points taken as a strip: the second triangle is (p1, p2, p3)
iterateTrianglesStrip(pts) ==
    IF Len(pts) = 4
    THEN << <<pts[1], pts[2], pts[3]>>, <<pts[2], pts[3], pts[4]>> >>
    ELSE Stored([i \in 1..(Len(pts) \div 3) |->
                    <<pts[3 * i - 2], pts[3 * i - 1], pts[3 * i]>>])

\* the triangles of a point list, in order
iterateTriangles(pts) ==
    IF Len(pts) = 4
    THEN << <<pts[1], pts[2], pts[3]>>, <<pts[1], pts[3], pts[4]>> >>
    ELSE Stored([i \in 1..(Len(pts) \div 3) |->
                    <<pts[3 * i - 2], pts[3 * i - 1], pts[3 * i]>>])

(***************************************************************************)
(* Multi-sample scan.  The k-th sub-sample offset of level n is            *)
(* msaaStep * 0.5 + k * msaaStep with msaaStep = 1 / (n + 1).              *)
(***************************************************************************)
SubOffset(n, k) == <<2 * k + 1, 2 * (n + 1)>>

\* one sub-scanline's bounds after the clamps, with its outside flag
ClampLR(l0, r0, out0, bw) ==
    LET Clamped(l, r) ==
            [l |-> l, r |-> r,
             out |-> out0 \/ (~RLt(l0, R(0)) /\ RGt(l0, R(bw))) \/ RLt(r0, R(0)) \/ RLe(r, l)]
    IN  Clamped(IF RLt(l0, R(0)) THEN R(0) ELSE IF RGt(l0, R(bw)) THEN R(bw) ELSE l0,
                IF RLt(r0, R(0)) THEN R(0) ELSE IF RGt(r0, R(bw)) THEN R(bw) ELSE r0)

RECURSIVE RMinOver(_, _, _)
RMinOver(rows, S, acc) ==
    IF S = {} THEN acc
    ELSE LET Rest(k) == RMinOver(rows, S \ {k}, RMin(acc, rows[k].l))
         IN  Rest(CHOOSE k \in S : TRUE)

RECURSIVE RMaxOver(_, _, _)
RMaxOver(rows, S, acc) ==
    IF S = {} THEN acc
    ELSE LET Rest(k) == RMaxOver(rows, S \ {k}, RMax(acc, rows[k].r))
         IN  Rest(CHOOSE k \in S : TRUE)

\* the candidate columns fl..cr of a pixel row, empty when every sub-scanline is out
MSAAColumns(rows, n) ==
    LET Columns(live) ==
            IF live = {} THEN {}
            ELSE Floor(RMinOver(rows, live, rows[CHOOSE k \in live : TRUE].l)) ..
                 Ceil(RMaxOver(rows, live, R(0)))
    IN  Columns({k \in 0..n : ~rows[k].out})

SampleIn(rows, x, n, kx, ky) ==
    LET Within(sx) == RGe(sx, rows[ky].l) /\ RLt(sx, rows[ky].r)
    IN  Within(RAdd(R(x), SubOffset(n, kx)))

AllIn(rows, x, n) == \A ky \in 0..n : \A kx \in 0..n : SampleIn(rows, x, n, kx, ky)

\* the sub-samples <<ix, iy, fx, fy>> of pixel (x, y) inside the bounds
PixelSamples(rows, x, y, n) ==
    {<<x, y, RAdd(R(x), SubOffset(n, s[1])), RAdd(R(y), SubOffset(n, s[2]))>> :
        s \in {s \in (0..n) \X (0..n) : SampleIn(rows, x, n, s[1], s[2])}}

MSAARowResult(rows, y, n) ==
    LET Split(cols, full) ==
            [full |-> {<<x, y>> : x \in full},
             part |-> UNION {PixelSamples(rows, x, y, n) : x \in cols \ full}]
        Columns(cols) == Split(cols, {x \in cols : AllIn(rows, x, n)})
    IN  Columns(MSAAColumns(rows, n))

TriRows(tri, n, bw, y) ==
    LET Clamp(lr) == ClampLR(lr.l, lr.r, lr.out, bw)
    IN  Stored([k \in 0..n |-> Clamp(triangleLR(tri, RAdd(R(y), SubOffset(n, k))))])

\* the per-row results merged
MergeRows(res) ==
    [full |-> UNION {res[y].full : y \in DOMAIN res},
     part |-> UNION {res[y].part : y \in DOMAIN res}]

\* [full |-> pixels fn is called on, part |-> sub-samples appended to msaaPixels]
fillTriangleMSAA(tri, n, bw, bh) ==
    MergeRows(Stored([y \in ScanRows(<<Min3(tri[1][2], tri[2][2], tri[3][2]),
                                       Max3(tri[1][2], tri[2][2], tri[3][2])>>, bh) |->
                         MSAARowResult(TriRows(tri, n, bw, y), y, n)]))

(***************************************************************************)
(* Quad scan.  leftv = quad[2] - quad[1], topv = quad[4] - quad[1]; the    *)
(* code normalises both and divides the solution by their lengths again,   *)
(* which cancels: (tx / topLen, ty / leftLen) is computed here from the    *)
(* unnormalised vectors by the same two branches.                          *)
(***************************************************************************)
quadArea(quad) ==
    LET Cross(leftv, topv) == RAbs(RSub(RMul(leftv[1], topv[2]), RMul(leftv[2], topv[1])))
    IN  Cross(<<RSub(quad[2][1], quad[1][1]), RSub(quad[2][2], quad[1][2])>>,
              <<RSub(quad[4][1], quad[1][1]), RSub(quad[4][2], quad[1][2])>>)

QuadUV(quad, fx, fy) ==
    LET Solve(leftv, topv, tfx, tfy) ==
            LET TyX(tx) == <<tx, RDiv(RSub(tfx, RMul(topv[1], tx)), leftv[1])>>
                TxX(k) == TyX(RDiv(RSub(tfy, RMul(tfx, k)), RSub(topv[2], RMul(topv[1], k))))
                TyY(tx) == <<tx, RDiv(RSub(tfy, RMul(topv[2], tx)), leftv[2])>>
                TxY(k) == TyY(RDiv(RSub(tfx, RMul(tfy, k)), RSub(topv[1], RMul(topv[2], k))))
            IN  IF RGt(RAbs(leftv[1]), RAbs(leftv[2]))
                THEN TxX(RDiv(leftv[2], leftv[1]))
                ELSE TxY(RDiv(leftv[1], leftv[2]))
    IN  Solve(<<RSub(quad[2][1], quad[1][1]), RSub(quad[2][2], quad[1][2])>>,
              <<RSub(quad[4][1], quad[1][1]), RSub(quad[4][2], quad[1][2])>>,
              RSub(fx, quad[1][1]), RSub(fy, quad[1][2]))

QuadYs(quad) ==
    << RMin(RMin(quad[1][2], quad[2][2]), RMin(quad[3][2], quad[4][2])),
       RMax(RMax(quad[1][2], quad[2][2]), RMax(quad[3][2], quad[4][2])) >>

\* the merged bounds of the quad's two triangles on scanline y
QuadLR(quad, y) ==
    LET Merged(lr1, lr2) ==
            [l |-> RMin(lr1.l, lr2.l), r |-> RMax(lr1.r, lr2.r),
             out1 |-> lr1.out, out2 |-> lr2.out]
    IN  Merged(triangleLR(<<quad[1], quad[2], quad[3]>>, y),
               triangleLR(<<quad[1], quad[3], quad[4]>>, y))

\* a pixel or sub-sample with the texture coordinates of its sampling position
WithUV(p, uv) == p \o uv

\* the set of <<x, y, tx, ty>> fn is called on
fillQuadNoAA(quad, bw, bh) ==
    LET Row(lr, y) == RowNoAA([l |-> lr.l, r |-> lr.r, out |-> lr.out1 /\ lr.out2], bw, y)
    IN  {WithUV(p, QuadUV(quad, RAdd(R(p[1]), Half), RAdd(R(p[2]), Half))) :
            p \in UNION {Row(QuadLR(quad, RAdd(R(y), Half)), y) :
                           y \in ScanRows(QuadYs(quad), bh)}}

QuadRows(quad, n, bw, y) ==
    LET Clamp(lr) == ClampLR(lr.l, lr.r, lr.out1 \/ lr.out2, bw)
    IN  Stored([k \in 0..n |-> Clamp(QuadLR(quad, RAdd(R(y), SubOffset(n, k))))])

\* [full |-> <<x, y, tx, ty>> fn is called on,
\*  part |-> sub-samples <<ix, iy, fx, fy, tx, ty>> appended to msaaPixels]
fillQuadMSAA(quad, n, bw, bh) ==
    LET Coords(res) ==
            [full |-> {WithUV(p, QuadUV(quad, RAdd(R(p[1]), Half), RAdd(R(p[2]), Half))) :
                          p \in res.full},
             part |-> {WithUV(s, QuadUV(quad, s[3], s[4])) : s \in res.part}]
    IN  Coords(MergeRows(Stored([y \in ScanRows(QuadYs(quad), bh) |->
                                    MSAARowResult(QuadRows(quad, n, bw, y), y, n)])))

(***************************************************************************)
(* Images.  An image is [w, h, pix] with pix a function on its pixels;     *)
(* the framebuffer, the clip and the stencil masks are such functions on   *)
(* the pixels of the backend.                                              *)
(***************************************************************************)
PixelsOf(bw, bh) == (0..(bw - 1)) \X (0..(bh - 1))

\* Image.At: the zero colour outside the bounds.  An image is [w, h, pix]:
\* pix maps the points of its bounds, which need not start at (0,0), to colours,
\* and w, h are the bounds' Dx and Dy.
At(img, x, y) == IF <<x, y>> \in DOMAIN img.pix THEN img.pix[<<x, y>>] ELSE Transparent

\* mask.AlphaAt: zero outside the bounds
AlphaAt(mask, x, y) ==
    IF x >= 0 /\ x < mask.w /\ y >= 0 /\ y < mask.h THEN mask.pix[<<x, y>>] ELSE 0

\* toRGBA: Color.RGBA() of a color.RGBA is c * 0x101, shifted right by 8
toRGBA(c) == [i \in 1..4 |-> U8((c[i] * 257) \div 256)]

halveImage(img) ==
    LET hw == img.w \div 2
        hh == img.h \div 2
        mixc(x, y, i) ==
            U8((257 * (At(img, 2 * x, 2 * y)[i] + At(img, 2 * x + 1, 2 * y)[i]
                       + At(img, 2 * x, 2 * y + 1)[i] + At(img, 2 * x + 1, 2 * y + 1)[i]))
               \div 1024)
    IN  [w |-> hw, h |-> hh,
         pix |-> Stored([p \in PixelsOf(hw, hh) |->
                    <<mixc(p[1], p[2], 1), mixc(p[1], p[2], 2),
                      mixc(p[1], p[2], 3), mixc(p[1], p[2], 4)>>])]

\* SoftwareImage.Replace: the mip pyramid of a source image
RECURSIVE BuildMips(_)
BuildMips(mips) ==
    LET Grow(last) ==
            IF last.w > 1 /\ last.h > 1 THEN BuildMips(Append(mips, halveImage(last)))
            ELSE mips
    IN  Grow(mips[Len(mips)])

\* SoftwareImage.Replace on the image img
Replace(img, src) ==
    [img EXCEPT !.mips = BuildMips([SubSeq(img.mips, 1, 1) EXCEPT ![1] = src])]

\* LoadImage: Replace on a fresh SoftwareImage with one empty mip slot
LoadImage(src) == Replace([mips |-> <<[w |-> 0, h |-> 0, pix |-> <<>>]>>, deleted |-> FALSE], src)

(***************************************************************************)
(* Stencil guard and compositor.  A paint state is                         *)
(* [img, stencil, blends]; blends counts the b.Image.SetRGBA calls of the  *)
(* running operation per pixel (a history variable).                       *)
(***************************************************************************)
\* the stencil handed on as the last operation left it
KeepStencil(sten) == sten

clearStencil(sten) == Stored([p \in DOMAIN sten |-> 0])

\* the pixel callback of the fill routines, run for every pixel of DOMAIN cols
PaintAt(st, clipm, cols) ==
    LET Write(hit) ==
            [img |-> Stored([p \in DOMAIN st.img |->
                        IF p \in hit /\ cols[p][4] > 0 THEN mix(cols[p], st.img[p])
                        ELSE st.img[p]]),
             stencil |-> Stored([p \in DOMAIN st.img |->
                        IF p \in hit THEN 255 ELSE st.stencil[p]]),
             blends |-> Stored([p \in DOMAIN st.img |->
                        IF p \in hit /\ cols[p][4] > 0 THEN st.blends[p] + 1
                        ELSE st.blends[p]])]
    IN  Write({p \in DOMAIN cols : clipm[p] # 0 /\ st.stencil[p] = 0})

RECURSIVE SumChannel(_, _, _)
SumChannel(S, cols, i) ==
    IF S = {} THEN 0
    ELSE LET s == CHOOSE s \in S : TRUE
         IN  cols[s][i] + SumChannel(S \ {s}, cols, i)

\* the averaging pass dividing by the number of sub-samples a pixel collected
ResolveMSAAMean(st, clipm, cols, n) ==
    LET Combined(S) ==
            Stored([i \in 1..4 |-> U8(SumChannel(S, cols, i) \div Cardinality(S))])
        Write(hit) ==
            [img |-> Stored([p \in DOMAIN st.img |->
                        IF p \in hit
                        THEN mix(Combined({s \in DOMAIN cols : s[1] = p[1] /\ s[2] = p[2]}),
                                 st.img[p])
                        ELSE st.img[p]]),
             stencil |-> Stored([p \in DOMAIN st.img |->
                        IF p \in hit THEN 255 ELSE st.stencil[p]]),
             blends |-> Stored([p \in DOMAIN st.img |->
                        IF p \in hit THEN st.blends[p] + 1 ELSE st.blends[p]])]
    IN  Write({p \in DOMAIN st.img :
                  /\ \E s \in DOMAIN cols : s[1] = p[1] /\ s[2] = p[2]
                  /\ clipm[p] # 0
                  /\ st.stencil[p] = 0})

\* the averaging pass over msaaPixels: cols maps every sub-sample to its colour
ResolveMSAA(st, clipm, cols, n) ==
    LET Combined(S) ==
            Stored([i \in 1..4 |-> U8(SumChannel(S, cols, i) \div ((n + 1) * (n + 1)))])
        Write(hit) ==
            [img |-> Stored([p \in DOMAIN st.img |->
                        IF p \in hit
                        THEN mix(Combined({s \in DOMAIN cols : s[1] = p[1] /\ s[2] = p[2]}),
                                 st.img[p])
                        ELSE st.img[p]]),
             stencil |-> Stored([p \in DOMAIN st.img |->
                        IF p \in hit THEN 255 ELSE st.stencil[p]]),
             blends |-> Stored([p \in DOMAIN st.img |->
                        IF p \in hit THEN st.blends[p] + 1 ELSE st.blends[p]])]
    IN  Write({p \in DOMAIN st.img :
                  /\ \E s \in DOMAIN cols : s[1] = p[1] /\ s[2] = p[2]
                  /\ clipm[p] # 0
                  /\ st.stencil[p] = 0})

\* fillTrianglesNoAA over the per-triangle scans (a sequence of pixel sets)
RECURSIVE fillTrianglesNoAA(_, _, _, _, _)
fillTrianglesNoAA(st, clipm, scans, i, style) ==
    IF i > Len(scans) THEN st
    ELSE fillTrianglesNoAA(
             PaintAt(st, clipm, Stored([p \in scans[i] |-> fillFunc(style, R(p[1]), R(p[2]))])),
             clipm, scans, i + 1, style)

RECURSIVE PaintFull(_, _, _, _, _)
PaintFull(st, clipm, scans, i, style) ==
    IF i > Len(scans) THEN st
    ELSE PaintFull(
             PaintAt(st, clipm,
                     Stored([p \in scans[i].full |-> fillFunc(style, R(p[1]), R(p[2]))])),
             clipm, scans, i + 1, style)

\* fillTrianglesMSAA over the per-triangle scans [full, part]; msaaPixels holds
\* every sub-sample once (addMSAAPixel), so it is the union of the parts
fillTrianglesMSAA(st, clipm, scans, n, style) ==
    ResolveMSAA(PaintFull(st, clipm, scans, 1, style), clipm,
                Stored([s \in UNION {scans[i].part : i \in 1..Len(scans)} |->
                    fillFunc(style, s[3], s[4])]), n)

\* fillTriangles: scans are those of fillTriangleMSAA when n > 0, else of fillTriangleNoAA
fillTriangles(st, clipm, scans, n, style) ==
    LET Rasterize(st0) ==
            IF n > 0 THEN fillTrianglesMSAA(st0, clipm, scans, n, style)
            ELSE fillTrianglesNoAA(st0, clipm, scans, 1, style)
    IN  Rasterize([st EXCEPT !.stencil = clearStencil(st.stencil)])

\* fillQuad: fn(x, y, tx, ty) is the colour callback
fillQuad(st, clipm, scan, n, fn(_, _, _, _)) ==
    LET Centre(q) == fn(RAdd(R(q[1]), Half), RAdd(R(q[2]), Half), q[3], q[4])
        Full(st0, full) ==
            PaintAt(st0, clipm, Stored([p \in {<<q[1], q[2]>> : q \in full} |->
                Centre(CHOOSE q \in full : q[1] = p[1] /\ q[2] = p[2])]))
        Rasterize(st0) ==
            IF n > 0
            THEN ResolveMSAA(Full(st0, scan.full), clipm,
                     Stored([s \in scan.part |-> fn(s[3], s[4], s[5], s[6])]), n)
            ELSE Full(st0, scan)
    IN  Rasterize([st EXCEPT !.stencil = clearStencil(st.stencil)])

(***************************************************************************)
(* Blur post-processor.  A line is a row or a column: a sequence of        *)
(* colours.  The running sums are integers, exact in float64.              *)
(***************************************************************************)
BlurThreshold1 == 333333333
BlurThreshold2 == 666666666
BlurThresholdDen == 1000000000

AddCol(s, c) == <<s[1] + c[1], s[2] + c[2], s[3] + c[3], s[4] + c[4]>>
SubCol(s, c) == <<s[1] - c[1], s[2] - c[2], s[3] - c[3], s[4] - c[4]>>

RECURSIVE SumLine(_, _, _)
SumLine(line, i, j) == IF i > j THEN <<0, 0, 0, 0>> ELSE AddCol(SumLine(line, i + 1, j), line[i])

\* the average cut to an integer instead of rounded
BoxAverageTrunc(sum, samples) == Stored([i \in 1..4 |-> U8(sum[i] \div samples)])

\* uint8(math.Round(sum * (1.0 / samples))) per channel
BoxAverage(sum, samples) == Stored([i \in 1..4 |-> U8(Round(<<sum[i], samples>>))])

\* the sliding loop with the leaving pixel dropped one step late
RECURSIVE BoxLoopLateLeave(_, _, _, _, _, _)
BoxLoopLateLeave(line, size, x, sum, samples, acc) ==
    LET Enter(right, sum1, samples1, out) ==
            IF right < Len(line)
            THEN BoxLoopLateLeave(line, size, x + 1, AddCol(sum1, line[right + 1]),
                                  samples1 + 1, out)
            ELSE BoxLoopLateLeave(line, size, x + 1, sum1, samples1, out)
        Leave(left, out) ==
            IF left > 0
            THEN Enter((x + 1) + size, SubCol(sum, line[left]), samples - 1, out)
            ELSE Enter((x + 1) + size, sum, samples, out)
        Write(out) == IF x >= Len(line) - 1 THEN out ELSE Leave(x - size, out)
    IN  Write(Append(acc, BoxAverage(sum, samples)))

\* the sliding loop at 0-based position x, with its running sum and sample count
RECURSIVE BoxLoop(_, _, _, _, _, _)
BoxLoop(line, size, x, sum, samples, acc) ==
    LET Enter(right, sum1, samples1, out) ==
            IF right < Len(line)
            THEN BoxLoop(line, size, x + 1, AddCol(sum1, line[right + 1]), samples1 + 1, out)
            ELSE BoxLoop(line, size, x + 1, sum1, samples1, out)
        Leave(left, out) ==
            IF left >= 0
            THEN Enter((x + 1) + size, SubCol(sum, line[left + 1]), samples - 1, out)
            ELSE Enter((x + 1) + size, sum, samples, out)
        Write(out) == IF x >= Len(line) - 1 THEN out ELSE Leave(x - size, out)
    IN  Write(Append(acc, BoxAverage(sum, samples)))

BoxLine(line, size) ==
    LET Flat(avg) == Stored([i \in 1..Len(line) |-> avg])
    IN  IF size >= Len(line)
        THEN Flat(BoxAverage(SumLine(line, 1, Len(line)), Len(line)))
        ELSE BoxLoop(line, size, 0, SumLine(line, 1, size + 1), size + 1, <<>>)

box3x(pix, size, bw, bh) ==
    LET Rows(rows) == Stored([p \in PixelsOf(bw, bh) |-> rows[p[2]][p[1] + 1]])
    IN  Rows(Stored([y \in 0..(bh - 1) |->
                 BoxLine(Stored([i \in 1..bw |-> pix[<<i - 1, y>>]]), size)]))

box3y(pix, size, bw, bh) ==
    LET Cols(cols) == Stored([p \in PixelsOf(bw, bh) |-> cols[p[1]][p[2] + 1]])
    IN  Cols(Stored([x \in 0..(bw - 1) |->
                 BoxLine(Stored([i \in 1..bh |-> pix[<<x, i - 1>>]]), size)]))

\* frac > t / BlurThresholdDen for a fraction 0 <= frac < 1, without overflow
FracExceeds(frac, t) ==
    LET Exceeds(whole, rest) == whole > t \/ (whole = t /\ rest > 0)
        Scaled(q, m) == Exceeds(frac[1] * q + (frac[1] * m) \div frac[2],
                                (frac[1] * m) % frac[2])
    IN  Scaled(BlurThresholdDen \div frac[2], BlurThresholdDen % frac[2])

\* the three box radii taken from the size as given
BoxSizesUnscaled(size) ==
    LET Sizes(fsize, frac) ==
            << fsize,
               IF FracExceeds(frac, BlurThreshold1) THEN fsize + 1 ELSE fsize,
               IF FracExceeds(frac, BlurThreshold2) THEN fsize + 1 ELSE fsize >>
        Whole(adj, fsize) == Sizes(fsize, RSub(adj, R(fsize)))
    IN  Whole(size, Floor(size))

\* the three box radii <<sizea, sizeb, sizec>> of box3
BoxSizes(size) ==
    LET Sizes(fsize, frac) ==
            << fsize,
               IF FracExceeds(frac, BlurThreshold1) THEN fsize + 1 ELSE fsize,
               IF FracExceeds(frac, BlurThreshold2) THEN fsize + 1 ELSE fsize >>
        Whole(adj, fsize) == Sizes(fsize, RSub(adj, R(fsize)))
        Adjusted(adj) == Whole(adj, Floor(adj))
    IN  Adjusted(RMul(size, RSub(R(1), RDiv(R(1), RAdd(size, R(1))))))

box3(pix, size, bw, bh) ==
    LET Passes(s) ==
            box3y(box3y(box3y(box3x(box3x(box3x(pix, s[1], bw, bh), s[2], bw, bh),
                                    s[3], bw, bh),
                              s[1], bw, bh),
                        s[2], bw, bh),
                  s[3], bw, bh)
    IN  Passes(BoxSizes(size))

\* draw.Draw(dst, r, src, ZP, draw.Over) on one pixel of two *image.RGBA:
\* d = uint8((d * a / m + s * 0x101) >> 8) with m = 0xffff and
\* a = (m - sa * 0x101) * 0x101; d * a / m equals d * 257 * (255 - sa) / 255.
DrawOverPixel(d, s) ==
    Stored([i \in 1..4 |-> U8(((d[i] * 257 * (255 - s[4])) \div 255 + s[i] * 257) \div 256)])

\* activateBlurTarget, fillTriangles, drawBlurred
drawBlurred(orig, scratch, size, bw, bh) ==
    LET Over(blurred) == Stored([p \in PixelsOf(bw, bh) |-> DrawOverPixel(orig[p], blurred[p])])
    IN  Over(box3(scratch, size, bw, bh))

(***************************************************************************)
(* Go's image.Rect, Rectangle.Intersect, RGBA.SubImage and draw.Draw with  *)
(* draw.Src, as GetImageData and PutImageData call them.  A rectangle is   *)
(* [x0, y0, x1, y1], half-open.                                            *)
(***************************************************************************)
Rect(x0, y0, x1, y1) ==
    [x0 |-> IF x0 > x1 THEN x1 ELSE x0, y0 |-> IF y0 > y1 THEN y1 ELSE y0,
     x1 |-> IF x0 > x1 THEN x0 ELSE x1, y1 |-> IF y0 > y1 THEN y0 ELSE y1]

ZR == [x0 |-> 0, y0 |-> 0, x1 |-> 0, y1 |-> 0]
Empty(r) == r.x0 >= r.x1 \/ r.y0 >= r.y1
Dx(r) == r.x1 - r.x0
Dy(r) == r.y1 - r.y0

Intersect(r, s) ==
    LET NonEmpty(t) == IF Empty(t) THEN ZR ELSE t
    IN  NonEmpty([x0 |-> IF r.x0 < s.x0 THEN s.x0 ELSE r.x0,
                  y0 |-> IF r.y0 < s.y0 THEN s.y0 ELSE r.y0,
                  x1 |-> IF r.x1 > s.x1 THEN s.x1 ELSE r.x1,
                  y1 |-> IF r.y1 > s.y1 THEN s.y1 ELSE r.y1])

RectAdd(r, dx, dy) ==
    [x0 |-> r.x0 + dx, y0 |-> r.y0 + dy, x1 |-> r.x1 + dx, y1 |-> r.y1 + dy]

Inside(p, r) == r.x0 <= p[1] /\ p[1] < r.x1 /\ r.y0 <= p[2] /\ p[2] < r.y1

\* GetImageData: b.Image.SubImage(image.Rect(x, y, w, h)); the result shares
\* the framebuffer's pixels, so it is its rectangle with shared = TRUE
GetImageData(bw, bh, x, y, gw, gh) ==
    LET Sub(r) == [rect |-> IF Empty(r) THEN ZR ELSE r, shared |-> ~Empty(r), pix |-> <<>>]
    IN  Sub(Intersect(Rect(x, y, gw, gh), Rect(0, 0, bw, bh)))

\* the pixel of a source image at (x, y): a shared image reads the framebuffer
SrcPixel(img, fb, x, y) == IF img.shared THEN fb[<<x, y>>] ELSE img.pix[<<x, y>>]

\* PutImageData: draw.Draw(b.Image, image.Rect(x, y, Dx, Dy), img, image.ZP, draw.Src)
PutImageData(fb, bw, bh, img, x, y) ==
    LET Copy(r0, r) ==
            Stored([p \in PixelsOf(bw, bh) |->
                IF Inside(p, r) THEN SrcPixel(img, fb, p[1] - r0.x0, p[2] - r0.y0)
                ELSE fb[p]])
        Clipped(r0) == Copy(r0, Intersect(Intersect(r0, Rect(0, 0, bw, bh)),
                                          RectAdd(img.rect, r0.x0, r0.y0)))
    IN  Clipped(Rect(x, y, Dx(img.rect), Dy(img.rect)))

(***************************************************************************)
(* Inputs of the model.  Coordinates are given in eighths of a pixel.      *)
(***************************************************************************)
Pt(x8, y8) == <<Norm(x8, 8), Norm(y8, 8)>>

\* point lists handed to Fill and Clip
Geoms ==
    << \* two overlapping triangles
       <<Pt(0, 0), Pt(32, 0), Pt(0, 32), Pt(0, 0), Pt(32, 0), Pt(32, 32)>>,
       \* a pixel-aligned rectangle as 4 points
       <<Pt(0, 0), Pt(16, 0), Pt(16, 16), Pt(0, 16)>>,
       \* a rectangle with fractional edges, other corner order
       <<Pt(21, 21), Pt(21, 3), Pt(3, 3), Pt(3, 21)>>,
       \* a triangle reaching outside the buffer on three sides
       <<Pt(-8, 0), Pt(40, 8), Pt(16, 40)>> >>
GeomIds == 1..Len(Geoms)
RectGeomIds == {2, 3}

\* BackendMat transforms handed to Fill
BackendMatIdentity == <<R(1), R(0), R(0), R(1), R(0), R(0)>>
Tfs == << BackendMatIdentity, <<R(1), R(0), R(0), R(1), R(1), R(0)>> >>
TfIds == 1..Len(Tfs)

MulMat(v, m) ==
    << RAdd(RAdd(RMul(m[1], v[1]), RMul(m[3], v[2])), m[5]),
       RAdd(RAdd(RMul(m[2], v[1]), RMul(m[4], v[2])), m[6]) >>

\* the points Fill rasterises
FillPts(pts, tf) ==
    IF tf # BackendMatIdentity THEN Stored([i \in 1..Len(pts) |-> MulMat(pts[i], tf)])
    ELSE pts

\* destination quads of DrawImage, FillImageMask and Clear:
\* quad[1] the origin, quad[2] - quad[1] the left edge, quad[4] - quad[1] the top edge
Quads ==
    << <<Pt(8, 8), Pt(8, 24), Pt(24, 24), Pt(24, 8)>>,
       \* rotated by 45 degrees, origin at the left corner
       <<Pt(0, 16), Pt(16, 32), Pt(32, 16), Pt(16, 0)>>,
       \* rotated by 45 degrees, origin at the top corner
       <<Pt(16, 0), Pt(0, 16), Pt(16, 32), Pt(32, 16)>>,
       \* axis-aligned with fractional edges
       <<Pt(3, 3), Pt(3, 21), Pt(21, 21), Pt(21, 3)>> >>
QuadIds == 1..Len(Quads)

Red == <<255, 0, 0, 255>>
Blue50 == <<0, 0, 255, 128>>
Black == <<0, 0, 0, 255>>
White == <<255, 255, 255, 255>>

SolidStyle(c, blur) ==
    [kind |-> "solid", color |-> c, blur |-> blur, stops |-> <<>>,
     from |-> <<R(0), R(0)>>, to |-> <<R(0), R(0)>>]

Styles ==
    << SolidStyle(Red, R(0)),
       SolidStyle(Blue50, R(0)),
       SolidStyle(Red, R(1)),
       [kind |-> "linear", color |-> Transparent, blur |-> R(0),
        stops |-> <<[pos |-> R(0), col |-> Black], [pos |-> R(1), col |-> White]>>,
        from |-> <<R(0), R(0)>>, to |-> <<R(4), R(0)>>] >>
StyleIds == 1..Len(Styles)
MaskStyleIds == {1, 2}

\* the source bitmap handed to LoadImage
SourceImage ==
    [w |-> 2, h |-> 2,
     pix |-> [p \in PixelsOf(2, 2) |->
                 IF p = <<0, 0>> THEN <<255, 0, 0, 255>>
                 ELSE IF p = <<1, 0>> THEN <<0, 255, 0, 255>>
                 ELSE IF p = <<0, 1>> THEN <<0, 0, 255, 255>>
                 ELSE <<255, 255, 0, 128>>]]
LoadedImage == LoadImage(SourceImage)

\* the alpha mask handed to FillImageMask
MaskImage ==
    [w |-> 2, h |-> 2,
     pix |-> [p \in PixelsOf(2, 2) |->
                 IF p = <<1, 1>> THEN 0 ELSE IF p = <<0, 1>> THEN 128 ELSE 255]]

(***************************************************************************)
(* The scans of the model's geometries.  The tables hold, for the size     *)
(* Width x Height, what ScanTris and ScanQuad compute.                     *)
(***************************************************************************)
\* per triangle of the point list: fillTriangleMSAA's result when n > 0,
\* fillTriangleNoAA's otherwise
ScanTris(pts, n, bw, bh) ==
    LET Each(tris) ==
            Stored([i \in 1..Len(tris) |->
                IF n > 0 THEN fillTriangleMSAA(tris[i], n, bw, bh)
                ELSE fillTriangleNoAA(tris[i], bw, bh)])
    IN  Each(iterateTriangles(pts))

ScanQuad(quad, n, bw, bh) ==
    IF n > 0 THEN fillQuadMSAA(quad, n, bw, bh) ELSE fillQuadNoAA(quad, bw, bh)

TriScanTable ==
    Stored([k \in GeomIds \X TfIds \X (0..MaxMSAA) |->
        ScanTris(FillPts(Geoms[k[1]], Tfs[k[2]]), k[3], Width, Height)])

QuadScanTable ==
    Stored([k \in QuadIds \X (0..MaxMSAA) |-> ScanQuad(Quads[k[1]], k[2], Width, Height)])

ClearScanTable == Stored([q \in QuadIds |-> ScanTris(Quads[q], 0, Width, Height)])

TriScans(g, t, n) == TriScanTable[<<g, t, n>>]

QuadScans(q, n) == QuadScanTable[<<q, n>>]

ClearScans(q) == ClearScanTable[q]

(***************************************************************************)
(* The backend's operations as functions of the state they read.           *)
(***************************************************************************)
Blank(bw, bh) == Stored([p \in PixelsOf(bw, bh) |-> Transparent])
Zeros(bw, bh) == Stored([p \in PixelsOf(bw, bh) |-> 0])
Opaque(bw, bh) == Stored([p \in PixelsOf(bw, bh) |-> 255])

\* Fill of rasterised points with a style: [img, stencil, blends] after the call
FillWith(img, clipm, sten, n, scans, style, bw, bh) ==
    LET Blurred(s1) ==
            [img |-> drawBlurred(img, s1.img, style.blur, bw, bh),
             stencil |-> s1.stencil, blends |-> s1.blends]
        Drawn(target) ==
            fillTriangles([img |-> target, stencil |-> sten, blends |-> Zeros(bw, bh)],
                          clipm, scans, n, style)
    IN  IF RGt(style.blur, R(0)) THEN Blurred(Drawn(Blank(bw, bh))) ELSE Drawn(img)

\* Fill: [img, stencil, blends] after the call
FillResult(img, clipm, sten, n, g, t, sid, bw, bh) ==
    FillWith(img, clipm, sten, n, TriScans(g, t, n), Styles[sid], bw, bh)

\* the mip level DrawImage samples: the first one whose area is closest
RECURSIVE PickMip(_, _, _, _)
PickMip(mips, area, i, best) ==
    IF i > Len(mips) THEN best
    ELSE LET dist(k) == RAbs(RSub(R(mips[k].w * mips[k].h), area))
         IN  PickMip(mips, area, i + 1, IF RLt(dist(i), dist(best)) THEN i ELSE best)

\* the colour callback of DrawImage; src = <<sx, sy, sw, sh>>
DrawImageColor(dimg, src, quad, tx, ty) ==
    LET Sample(mip, mipScaleX, mipScaleY) ==
            toRGBA(At(mip,
                Floor(RAdd(RMul(src[1], mipScaleX), RMul(RMul(src[3], mipScaleX), tx))),
                Floor(RAdd(RMul(src[2], mipScaleY), RMul(RMul(src[4], mipScaleY), ty)))))
        Scaled(mip, bw0, bh0) == Sample(mip, <<mip.w, bw0>>, <<mip.h, bh0>>)
        Level(bw0, bh0) ==
            Scaled(dimg.mips[PickMip(dimg.mips,
                       RMul(quadArea(quad), RDiv(R(bw0 * bh0), RMul(src[3], src[4]))), 2, 1)],
                   bw0, bh0)
    IN  Level(dimg.mips[1].w, dimg.mips[1].h)

\* DrawImage of a rasterised quad: [img, stencil, blends] after the call
DrawImageWith(img, clipm, sten, n, dimg, src, quad, scan, bw, bh) ==
    IF dimg.deleted THEN [img |-> img, stencil |-> sten, blends |-> Zeros(bw, bh)]
    ELSE fillQuad([img |-> img, stencil |-> sten, blends |-> Zeros(bw, bh)], clipm,
                  scan, n,
                  LAMBDA x, y, tx, ty : DrawImageColor(dimg, src, quad, tx, ty))

DrawImageResult(img, clipm, sten, n, dimg, src, q, bw, bh) ==
    DrawImageWith(img, clipm, sten, n, dimg, src, Quads[q], QuadScans(q, n), bw, bh)

\* the colour callback of FillImageMask
MaskColor(style, mask, x, y, tx, ty) ==
    LET a == AlphaAt(mask, Trunc(RMul(R(mask.w), tx)), Trunc(RMul(R(mask.h), ty)))
    IN  IF a = 0 THEN Transparent ELSE alphaColor(fillFunc(style, x, y), a)

\* FillImageMask of a rasterised quad with a style: [img, stencil, blends] after the call
FillImageMaskWith(img, clipm, sten, n, style, mask, scan, bw, bh) ==
    fillQuad([img |-> img, stencil |-> sten, blends |-> Zeros(bw, bh)], clipm, scan, n,
             LAMBDA x, y, tx, ty : MaskColor(style, mask, x, y, tx, ty))

FillImageMaskResult(img, clipm, sten, n, sid, mask, q, bw, bh) ==
    FillImageMaskWith(img, clipm, sten, n, Styles[sid], mask, QuadScans(q, n), bw, bh)

\* Clear: the framebuffer after the call
ClearResult(img, clipm, q, bw, bh) ==
    LET Erase(covered) ==
            Stored([p \in PixelsOf(bw, bh) |->
                IF p \in covered /\ clipm[p] # 0 THEN Transparent ELSE img[p]])
        Covered(scans) == Erase(UNION {scans[i] : i \in 1..Len(scans)})
    IN  Covered(ClearScans(q))

\* Clip: the stencil after the rasterisation, and the clip mask after the merge
ClipStencil(sten, g, bw, bh) ==
    LET Mark(covered, cleared) ==
            Stored([p \in PixelsOf(bw, bh) |-> IF p \in covered THEN 255 ELSE cleared[p]])
        Covered(scans) == Mark(UNION {scans[i] : i \in 1..Len(scans)}, clearStencil(sten))
    IN  Covered(TriScans(g, 1, 0))

\* the clip mask replaced by the stencil
ClipReplace(clipm, sten) == Stored([p \in DOMAIN clipm |-> sten[p]])

ClipMerge(clipm, sten) ==
    Stored([p \in DOMAIN clipm |-> IF sten[p] = 0 THEN 0 ELSE clipm[p]])

(***************************************************************************)
(* The backend as a state machine.                                         *)
(*   w, h, Image, clip, stencil, MSAA : the fields of SoftwareBackend      *)
(*   held     : the image the caller got from GetImageData                 *)
(*   simg     : the SoftwareImage the caller loaded                        *)
(*   cv       : the fields of Canvas that drawShadow reads and writes      *)
(*   call     : the last call of a pure function and its result            *)
(* History variables, read by the properties only:                         *)
(*   op       : the last operation and its arguments                       *)
(*   old      : the framebuffer when the last operation started            *)
(*   blends   : per pixel, the b.Image.SetRGBA calls of the last operation *)
(*   clipped  : the geometries passed to Clip since the last reset         *)
(*   ops      : the number of operations so far                            *)
(***************************************************************************)
VARIABLES w, h, Image, clip, stencil, MSAA, held, simg, cv, call, op, old, blends, clipped,
          ops

vars ==
    <<w, h, Image, clip, stencil, MSAA, held, simg, cv, call, op, old, blends, clipped, ops>>

NoImage == [rect |-> ZR, shared |-> FALSE, pix |-> <<>>]
NoCall == [fn |-> "none"]
\* a canvas without a shadow: the fields of cv.state drawShadow reads, and cv.shadowBuf
DefaultCanvas ==
    [shadowColor |-> Transparent, shadowOffsetX |-> R(0), shadowOffsetY |-> R(0),
     shadowBlur |-> R(0), globalAlpha |-> R(1), shadowBuf |-> <<>>]

Op(kind, g, t, sid, q, overlap, n) ==
    [kind |-> kind, g |-> g, t |-> t, sid |-> sid, q |-> q, overlap |-> overlap, msaa |-> n]

\* NewBackend(bw, bh)
NewBackend(bw, bh) ==
    /\ w = bw
    /\ h = bh
    /\ Image = Blank(bw, bh)
    /\ clip = Opaque(bw, bh)
    /\ stencil = Zeros(bw, bh)
    /\ MSAA = 0
    /\ op = Op("NewBackend", 0, 0, 0, 0, FALSE, 0)
    /\ old = Blank(bw, bh)
    /\ blends = Zeros(bw, bh)
    /\ clipped = {}
    /\ ops = 0

Init == NewBackend(Width, Height) /\ held = NoImage /\ simg = LoadedImage /\ cv = DefaultCanvas
    /\ call = NoCall

\* b.MSAA = n, a field the caller sets
SetMSAA(n) ==
    /\ MSAA' = n
    /\ UNCHANGED <<w, h, Image, clip, stencil, held, call, op, old, blends, clipped, ops, simg, cv>>

SetSize(bw, bh) ==
    /\ w' = bw
    /\ h' = bh
    /\ Image' = Blank(bw, bh)
    /\ clip' = Opaque(bw, bh)
    /\ stencil' = Zeros(bw, bh)
    /\ held' = IF held.shared THEN [held EXCEPT !.shared = FALSE,
                    !.pix = [p \in {q \in DOMAIN Image : Inside(q, held.rect)} |-> Image[p]]]
               ELSE held
    /\ op' = Op("SetSize", 0, 0, 0, 0, FALSE, MSAA)
    /\ old' = Blank(bw, bh)
    /\ blends' = Zeros(bw, bh)
    /\ clipped' = {}
    /\ ops' = ops + 1
    /\ UNCHANGED <<MSAA, call, simg, cv>>

ClearClip ==
    /\ clip' = Opaque(w, h)
    /\ op' = Op("ClearClip", 0, 0, 0, 0, FALSE, MSAA)
    /\ old' = Image
    /\ blends' = Zeros(w, h)
    /\ clipped' = {}
    /\ ops' = ops + 1
    /\ UNCHANGED <<w, h, Image, stencil, MSAA, held, call, simg, cv>>

Clip(g) ==
    /\ stencil' = ClipStencil(stencil, g, w, h)
    /\ clip' = ClipMerge(clip, stencil')
    /\ op' = Op("Clip", g, 1, 0, 0, FALSE, MSAA)
    /\ old' = Image
    /\ blends' = Zeros(w, h)
    /\ clipped' = clipped \cup {g}
    /\ ops' = ops + 1
    /\ UNCHANGED <<w, h, Image, MSAA, held, call, simg, cv>>

Painted(st, o) ==
    /\ Image' = st.img
    /\ stencil' = st.stencil
    /\ blends' = st.blends
    /\ op' = o
    /\ old' = Image
    /\ ops' = ops + 1
    /\ UNCHANGED <<w, h, clip, MSAA, held, call, clipped, simg, cv>>

Fill(sid, g, t, canOverlap) ==
    Painted(FillResult(Image, clip, stencil, MSAA, g, t, sid, w, h),
            Op("Fill", g, t, sid, 0, canOverlap, MSAA))

Clear(q) ==
    Painted([img |-> ClearResult(Image, clip, q, w, h), stencil |-> stencil,
             blends |-> Zeros(w, h)],
            Op("Clear", 0, 0, 0, q, FALSE, MSAA))

DrawImage(q) ==
    Painted(DrawImageResult(Image, clip, stencil, MSAA, simg,
                            <<R(0), R(0), R(SourceImage.w), R(SourceImage.h)>>, q, w, h),
            Op("DrawImage", 0, 0, 0, q, FALSE, MSAA))

FillImageMask(sid, q) ==
    Painted(FillImageMaskResult(Image, clip, stencil, MSAA, sid, MaskImage, q, w, h),
            Op("FillImageMask", 0, 0, sid, q, FALSE, MSAA))

\* the caller sets MSAA at any time and makes at most MaxOps other calls
Next ==
    \/ \E n \in 0..MaxMSAA : SetMSAA(n)
    \/ ops < MaxOps /\ SetSize(Width, Height)
    \/ ops < MaxOps /\ ClearClip
    \/ ops < MaxOps /\ \E g \in GeomIds : Clip(g)
    \/ ops < MaxOps /\ \E sid \in StyleIds, g \in GeomIds, t \in TfIds,
                           canOverlap \in BOOLEAN : Fill(sid, g, t, canOverlap)
    \/ ops < MaxOps /\ \E q \in QuadIds : Clear(q)
    \/ ops < MaxOps /\ \E q \in QuadIds : DrawImage(q)
    \/ ops < MaxOps /\ \E sid \in MaskStyleIds, q \in QuadIds : FillImageMask(sid, q)

Spec == Init /\ [][Next]_vars

(***************************************************************************)
(* Longer runs of clipping: up to MaxClipOps calls of ClearClip, SetSize,  *)
(* Clip and of one paint operation of each kind.                           *)
(***************************************************************************)
MaxClipOps == 4

NextClip ==
    \/ \E n \in {0, 1} : SetMSAA(n)
    \/ ops < MaxClipOps /\ SetSize(Width, Height)
    \/ ops < MaxClipOps /\ ClearClip
    \/ ops < MaxClipOps /\ \E g \in GeomIds : Clip(g)
    \/ ops < MaxClipOps /\ \E g \in GeomIds : Fill(2, g, 1, TRUE)
    \/ ops < MaxClipOps /\ Clear(1)
    \/ ops < MaxClipOps /\ DrawImage(2)
    \/ ops < MaxClipOps /\ FillImageMask(1, 3)

SpecClip == Init /\ [][NextClip]_vars

(***************************************************************************)
(* GetImageData and PutImageData on a framebuffer of DataW x DataH pixels. *)
(* The caller's own images are the patterns; the image GetImageData        *)
(* returned is held.                                                       *)
(***************************************************************************)
DataW == 5
DataH == 2

\* an image the caller made: every pixel differs from its neighbours
PatternImage(k) ==
    [rect |-> Rect(0, 0, DataW, DataH), shared |-> FALSE,
     pix |-> Stored([p \in PixelsOf(DataW, DataH) |->
                <<10 * p[1] + k, 10 * p[2] + k, k, 255>>])]
PatternIds == 1..2

InitData == NewBackend(DataW, DataH) /\ held = NoImage /\ simg = LoadedImage /\ cv = DefaultCanvas
    /\ call = NoCall

GetImageDataCall(x, y, gw, gh) ==
    /\ held' = GetImageData(w, h, x, y, gw, gh)
    /\ call' = [fn |-> "GetImageData", x |-> x, y |-> y, w |-> gw, h |-> gh]
    /\ UNCHANGED <<w, h, Image, clip, stencil, MSAA, op, old, blends, clipped, ops, simg, cv>>

PutImageDataCall(img, src, x, y) ==
    /\ Image' = PutImageData(Image, w, h, img, x, y)
    /\ op' = [kind |-> "PutImageData", src |-> src, x |-> x, y |-> y]
    /\ old' = Image
    /\ blends' = Zeros(w, h)
    /\ ops' = ops + 1
    /\ UNCHANGED <<w, h, clip, stencil, MSAA, held, call, clipped, simg, cv>>

PutPattern(k, x, y) == PutImageDataCall(PatternImage(k), "pattern", x, y)

PutHeld(x, y) == held # NoImage /\ PutImageDataCall(held, "held", x, y)

NextData ==
    \/ \E x \in 0..2, y \in 0..1, gw \in 1..DataW, gh \in 1..DataH :
           GetImageDataCall(x, y, gw, gh)
    \/ ops < MaxOps /\ \E k \in PatternIds, x \in 0..1, y \in 0..1 : PutPattern(k, x, y)
    \/ ops < MaxOps /\ \E x \in 0..2, y \in 0..1 : PutHeld(x, y)

SpecData == InitData /\ [][NextData]_vars

(***************************************************************************)
(* The pure functions, applied to arguments from bounded sets: call holds  *)
(* the last call and what it returned.                                     *)
(***************************************************************************)
MixColours == {<<r, 255 - r, 0, a>> : r \in {0, 100, 255}, a \in {0, 1, 128, 255}}

StopPositions == {R(0), Half, R(1)}
StopColours == {Black, White, Blue50}
GradientStops == {[pos |-> sp, col |-> sc] : sp \in StopPositions, sc \in StopColours}
MaxStops == 3
Gradients == UNION {[1..n -> GradientStops] : n \in 0..MaxStops}
Positions == {<<-1, 2>>, R(0), <<1, 4>>, Half, <<3, 4>>, R(1), <<3, 2>>}

\* the calls to make, their results not yet computed
PureCalls ==
    {[fn |-> "mix", src |-> src, dest |-> dest, done |-> FALSE, result |-> Transparent] :
        src \in MixColours, dest \in MixColours}
    \cup {[fn |-> "ColorAt", g |-> g, pos |-> pos, done |-> FALSE, result |-> Transparent,
            divisors |-> {}] :
        g \in Gradients, pos \in Positions}

InitPure == NewBackend(Width, Height) /\ held = NoImage /\ simg = LoadedImage /\ cv = DefaultCanvas
    /\ call \in PureCalls

MixApply ==
    /\ call.fn = "mix" /\ ~call.done
    /\ call' = [call EXCEPT !.done = TRUE, !.result = mix(call.src, call.dest)]
    /\ UNCHANGED <<w, h, Image, clip, stencil, MSAA, held, op, old, blends, clipped, ops, simg, cv>>

ColorAtApply ==
    /\ call.fn = "ColorAt" /\ ~call.done
    /\ call' = [call EXCEPT !.done = TRUE, !.result = ColorAt(call.g, call.pos),
                            !.divisors = ColorAtDivisors(call.g, call.pos)]
    /\ UNCHANGED <<w, h, Image, clip, stencil, MSAA, held, op, old, blends, clipped, ops, simg, cv>>

NextPure == MixApply \/ ColorAtApply

SpecPure == InitPure /\ [][NextPure]_vars

(***************************************************************************)
(* Fills with linear gradients on a GradW x GradH buffer, wide enough for  *)
(* a gradient axis of length 10.                                           *)
(***************************************************************************)
GradW == 11
GradH == 2

LinearStyle(stops, from, to) ==
    [kind |-> "linear", color |-> Transparent, blur |-> R(0),
     stops |-> stops, from |-> from, to |-> to]

GradStyles ==
    << \* (0,0) black to (10,0) white
       LinearStyle(<<[pos |-> R(0), col |-> Black], [pos |-> R(1), col |-> White]>>,
                   <<R(0), R(0)>>, <<R(10), R(0)>>),
       \* a slanted axis of length 5
       LinearStyle(<<[pos |-> R(0), col |-> Black], [pos |-> R(1), col |-> White]>>,
                   <<R(0), R(0)>>, <<R(3), R(4)>>),
       \* right to left, three stops, one of them translucent
       LinearStyle(<<[pos |-> R(0), col |-> Black], [pos |-> Half, col |-> Blue50],
                     [pos |-> R(1), col |-> White]>>,
                   <<R(10), R(0)>>, <<R(0), R(0)>>) >>
GradStyleIds == 1..Len(GradStyles)

GradGeoms ==
    << \* the rectangle x in [0,10], y in [0,2] as 4 points
       <<Pt(0, 0), Pt(80, 0), Pt(80, 16), Pt(0, 16)>>,
       \* a triangle with a slanted edge
       <<Pt(0, 0), Pt(88, 0), Pt(0, 16)>>,
       \* a rectangle with fractional edges
       <<Pt(12, 0), Pt(84, 0), Pt(84, 12), Pt(12, 12)>> >>
GradGeomIds == 1..Len(GradGeoms)

GradScanTable ==
    Stored([k \in GradGeomIds \X {0, 1} |-> ScanTris(GradGeoms[k[1]], k[2], GradW, GradH)])

GradScans(g, n) == GradScanTable[<<g, n>>]

InitGradient == NewBackend(GradW, GradH) /\ held = NoImage /\ simg = LoadedImage /\ cv = DefaultCanvas
    /\ call = NoCall

FillLinearGradient(sid, g) ==
    Painted(FillWith(Image, clip, stencil, MSAA, GradScans(g, MSAA), GradStyles[sid], w, h),
            Op("FillLinearGradient", g, 1, sid, 0, FALSE, MSAA))

NextGradient ==
    \/ \E n \in {0, 1} : SetMSAA(n)
    \/ ops < MaxOps /\ \E sid \in GradStyleIds, g \in GradGeomIds : FillLinearGradient(sid, g)

SpecGradient == InitGradient /\ [][NextGradient]_vars

(***************************************************************************)
(* Images: LoadImage, then Replace and DrawImage calls on the loaded       *)
(* image.  The sources differ in size, content and bounds; one is a        *)
(* sub-image, whose bounds do not start at (0,0).                          *)
(***************************************************************************)
MaxSide == 5

\* an image over the bounds [x0, x0 + iw) x [y0, y0 + ih) with content k
SourceOf(x0, y0, iw, ih, k) ==
    [w |-> iw, h |-> ih,
     pix |-> Stored([p \in (x0..(x0 + iw - 1)) \X (y0..(y0 + ih - 1)) |->
                <<(17 * p[1] + 40 * p[2] + 31 * k) % 256, (29 * p[1] * p[1] + 53 * p[2]) % 256,
                  (77 * (p[1] + p[2]) + k) % 256, IF (p[1] + p[2]) % 3 = 0 THEN 128 ELSE 255>>])]

Sources ==
    << SourceOf(0, 0, 1, 1, 1), SourceOf(0, 0, 2, 2, 2), SourceOf(0, 0, 4, 4, 3),
       SourceOf(0, 0, MaxSide, 3, 4), SourceOf(0, 0, 3, 1, 5), SourceOf(0, 0, 4, 4, 6),
       SourceOf(0, 0, 2, 3, 7),
       \* what SubImage gives: the bounds start at (1,0)
       SourceOf(1, 0, 4, 2, 8) >>
SourceIds == 1..Len(Sources)

InitImage ==
    /\ NewBackend(Width, Height) /\ held = NoImage /\ cv = DefaultCanvas
    /\ \E k \in SourceIds :
           /\ simg = LoadImage(Sources[k])
           /\ call = [fn |-> "LoadImage", src |-> k]

ReplaceCall(k) ==
    /\ simg' = Replace(simg, Sources[k])
    /\ call' = [fn |-> "Replace", src |-> k]
    /\ ops' = ops + 1
    /\ UNCHANGED <<w, h, Image, clip, stencil, MSAA, held, cv, op, old, blends, clipped>>

NextImage ==
    \/ ops < MaxOps /\ \E k \in SourceIds : ReplaceCall(k)
    \/ ops < MaxOps /\ \E q \in QuadIds : DrawImage(q)

SpecImage == InitImage /\ [][NextImage]_vars

(***************************************************************************)
(* Shadows: Canvas.drawShadow on a canvas whose shadow state is any of     *)
(* ShadowStates, over a backend that has been clipped and painted.         *)
(***************************************************************************)
NilMask == [w |-> 0, h |-> 0, pix |-> <<>>, nil |-> TRUE]
NoBackendCall == [kind |-> "none"]

\* the early return: nothing is written, no backend call is made
NoShadow(cvs, pts) ==
    [outcome |-> "return", shadowBuf |-> cvs.shadowBuf, pts |-> pts, backend |-> NoBackendCall]

\* cv.shadowBuf after the loop: the points moved by the shadow offset
ShadowBuf(cvs, pts) ==
    [i \in 1..Len(pts) |-> <<RAdd(pts[i][1], cvs.shadowOffsetX),
                             RAdd(pts[i][2], cvs.shadowOffsetY)>>]

\* the style of the shadow: its colour with the alpha scaled by globalAlpha
ShadowStyle(cvs) ==
    SolidStyle([cvs.shadowColor EXCEPT ![4] =
                   U8(Round(RMul(RMul(Norm(cvs.shadowColor[4], 255), cvs.globalAlpha),
                                 R(255))))],
               cvs.shadowBlur)

\* a variant that returns, without a backend call, where the number of points is wrong
ShadowDrawOrSkip(cvs, pts, mask, canOverlap) ==
    [outcome |-> "return", shadowBuf |-> ShadowBuf(cvs, pts), pts |-> pts,
     backend |->
        IF mask = NilMask
        THEN [kind |-> "Fill", style |-> ShadowStyle(cvs), pts |-> ShadowBuf(cvs, pts),
              tf |-> BackendMatIdentity, canOverlap |-> canOverlap]
        ELSE IF Len(pts) = 4
        THEN [kind |-> "FillImageMask", style |-> ShadowStyle(cvs), mask |-> mask,
              pts |-> ShadowBuf(cvs, pts)]
        ELSE NoBackendCall]

\* drawShadow past its early returns
ShadowDraw(cvs, pts, mask, canOverlap) ==
    IF mask # NilMask
    THEN IF Len(pts) # 4
         THEN [outcome |-> "panic", shadowBuf |-> ShadowBuf(cvs, pts), pts |-> pts,
               backend |-> NoBackendCall]
         ELSE [outcome |-> "return", shadowBuf |-> ShadowBuf(cvs, pts), pts |-> pts,
               backend |-> [kind |-> "FillImageMask", style |-> ShadowStyle(cvs),
                            mask |-> mask, pts |-> ShadowBuf(cvs, pts)]]
    ELSE [outcome |-> "return", shadowBuf |-> ShadowBuf(cvs, pts), pts |-> pts,
          backend |-> [kind |-> "Fill", style |-> ShadowStyle(cvs),
                       pts |-> ShadowBuf(cvs, pts), tf |-> BackendMatIdentity,
                       canOverlap |-> canOverlap]]

\* a variant that returns early for a transparent shadow only
drawShadowAnyOffset(cvs, pts, mask, canOverlap) ==
    IF cvs.shadowColor[4] = 0 THEN NoShadow(cvs, pts)
    ELSE ShadowDraw(cvs, pts, mask, canOverlap)

\* Canvas.drawShadow: [outcome, shadowBuf, pts, backend], the way the call ends,
\* cv.shadowBuf and the caller's point list after it, and the backend call it makes
drawShadow(cvs, pts, mask, canOverlap) ==
    IF cvs.shadowColor[4] = 0 THEN NoShadow(cvs, pts)
    ELSE IF cvs.shadowOffsetX = R(0) /\ cvs.shadowOffsetY = R(0) THEN NoShadow(cvs, pts)
    ELSE ShadowDraw(cvs, pts, mask, canOverlap)

\* the backend call drawShadow makes, applied: [img, stencil, blends]
ShadowEffect(bc, img, clipm, sten, bl, n, bw, bh) ==
    IF bc.kind = "Fill"
    THEN FillWith(img, clipm, sten, n, ScanTris(FillPts(bc.pts, bc.tf), n, bw, bh),
                  bc.style, bw, bh)
    ELSE IF bc.kind = "FillImageMask"
    THEN FillImageMaskWith(img, clipm, sten, n, bc.style, bc.mask,
                           ScanQuad(bc.pts, n, bw, bh), bw, bh)
    ELSE [img |-> img, stencil |-> sten, blends |-> bl]

ShadowColours == {Transparent, Black, <<0, 0, 0, 128>>}
ShadowOffsets == {R(0), R(1)}
ShadowBlurs == {R(0), R(1)}
GlobalAlphas == {R(1), Half}
ShadowStates ==
    [shadowColor : ShadowColours, shadowOffsetX : ShadowOffsets, shadowOffsetY : ShadowOffsets,
     shadowBlur : ShadowBlurs, globalAlpha : GlobalAlphas, shadowBuf : {<<>>}]

InitShadow ==
    /\ NewBackend(Width, Height) /\ held = NoImage /\ simg = LoadedImage /\ call = NoCall
    /\ cv \in ShadowStates

\* cv.drawShadow(Geoms[g], mask, canOverlap)
DrawShadowCall(g, mask, canOverlap) ==
    LET Ended(res) ==
            /\ cv' = [cv EXCEPT !.shadowBuf = res.shadowBuf]
            /\ call' = [fn |-> "drawShadow", g |-> g, masked |-> mask # NilMask,
                        outcome |-> res.outcome, backend |-> res.backend.kind,
                        pts |-> res.pts, at |-> ops + 1]
            /\ op' = IF res.backend.kind = "none" THEN op
                     ELSE [kind |-> "drawShadow", backend |-> res.backend.kind, msaa |-> MSAA]
        Applied(st) ==
            /\ Image' = st.img
            /\ stencil' = st.stencil
            /\ blends' = st.blends
        Run(res) ==
            /\ Ended(res)
            /\ Applied(ShadowEffect(res.backend, Image, clip, stencil, blends, MSAA, w, h))
    IN  /\ Run(drawShadow(cv, Geoms[g], mask, canOverlap))
        /\ old' = Image
        /\ ops' = ops + 1
        /\ UNCHANGED <<w, h, clip, MSAA, held, simg, clipped>>

NextShadow ==
    \/ \E n \in {0, 1} : SetMSAA(n)
    \/ ops < MaxOps /\ \E g \in GeomIds : Clip(g)
    \/ ops < MaxOps /\ \E g \in GeomIds : Fill(1, g, 1, TRUE)
    \/ ops < MaxOps /\ \E g \in GeomIds, mask \in {NilMask, MaskImage}, canOverlap \in BOOLEAN :
                           DrawShadowCall(g, mask, canOverlap)

SpecShadow == InitShadow /\ [][NextShadow]_vars

(***************************************************************************)
(* float64 arithmetic.  The edge interpolation of triangleLR divides,      *)
(* multiplies and adds float64 values, and each operation rounds its exact *)
(* result to F64Mant significant bits (to nearest, ties to even).  A       *)
(* float64 is held as a sign and a magnitude in fixed point: F64Limbs      *)
(* digits of F64LimbBits bits, least significant first, the last digit     *)
(* being the integer part.  Coordinates are small dyadic rationals, so     *)
(* they and their differences are exact and are kept as rationals; the     *)
(* window holds every value the scan forms from them exactly.              *)
(***************************************************************************)
F64Mant == 53
F64LimbBits == 12
F64FracLimbs == 6
F64Limbs == F64FracLimbs + 1
F64Base == 2 ^ F64LimbBits

\* bit i (from 1, least significant) of a magnitude
F64Bit(m, i) ==
    (m[((i - 1) \div F64LimbBits) + 1] \div (2 ^ ((i - 1) % F64LimbBits))) % 2

\* the position of the highest set bit of a magnitude, 0 for zero
F64Msb(m) ==
    LET Top(S) == IF S = {} THEN 0 ELSE CHOOSE i \in S : \A j \in S : j <= i
    IN  Top({i \in 1..(F64Limbs * F64LimbBits) : F64Bit(m, i) = 1})

RECURSIVE F64AddLimbs(_, _, _, _, _)
F64AddLimbs(x, y, i, carry, acc) ==
    IF i > Len(x) THEN acc
    ELSE F64AddLimbs(x, y, i + 1, (x[i] + y[i] + carry) \div F64Base,
                     Append(acc, (x[i] + y[i] + carry) % F64Base))

\* x - y for x >= y
RECURSIVE F64SubLimbs(_, _, _, _, _)
F64SubLimbs(x, y, i, borrow, acc) ==
    IF i > Len(x) THEN acc
    ELSE F64SubLimbs(x, y, i + 1, IF x[i] - y[i] - borrow < 0 THEN 1 ELSE 0,
                     Append(acc, (x[i] - y[i] - borrow + F64Base) % F64Base))

\* x * n for a natural n
RECURSIVE F64MulLimbs(_, _, _, _, _)
F64MulLimbs(x, n, i, carry, acc) ==
    IF i > Len(x) THEN acc
    ELSE F64MulLimbs(x, n, i + 1, (x[i] * n + carry) \div F64Base,
                     Append(acc, (x[i] * n + carry) % F64Base))

\* x \div 2, s times
RECURSIVE F64Halve(_, _)
F64Halve(x, s) ==
    IF s = 0 THEN x
    ELSE F64Halve(Stored([i \in 1..Len(x) |->
                     (x[i] \div 2)
                     + (IF i < Len(x) THEN (x[i + 1] % 2) * (F64Base \div 2) ELSE 0)]),
                  s - 1)

\* the magnitude with only bit i set
F64Unit(i) ==
    Stored([k \in 1..F64Limbs |->
               IF k = ((i - 1) \div F64LimbBits) + 1
               THEN 2 ^ ((i - 1) % F64LimbBits) ELSE 0])

\* the magnitude without its c lowest bits
F64Truncate(m, c) ==
    Stored([k \in 1..F64Limbs |->
               IF k * F64LimbBits <= c THEN 0
               ELSE IF (k - 1) * F64LimbBits >= c THEN m[k]
               ELSE m[k] - (m[k] % (2 ^ (c - (k - 1) * F64LimbBits)))])

\* an exact magnitude (sticky: something non-zero lies below the window)
\* rounded to F64Mant significant bits, to nearest, ties to even
F64Round(m, sticky) ==
    LET Cut(c) ==
            IF c <= 0 THEN m
            ELSE IF F64Bit(m, c) = 1
                    /\ (sticky \/ F64Bit(m, c + 1) = 1
                        \/ \E i \in 1..(c - 1) : F64Bit(m, i) = 1)
            THEN F64AddLimbs(F64Truncate(m, c), F64Unit(c + 1), 1, 0, <<>>)
            ELSE F64Truncate(m, c)
    IN  Cut(F64Msb(m) - F64Mant)

\* long division: the next k digits of rem / d, then the remainder
RECURSIVE F64DivLimbs(_, _, _, _)
F64DivLimbs(rem, d, k, acc) ==
    IF k = 0 THEN [limbs |-> acc, rem |-> rem]
    ELSE F64DivLimbs((F64Base * rem) % d, d, k - 1,
                     <<(F64Base * rem) \div d>> \o acc)

\* the float64 nearest to the rational n / d, n >= 0 and d > 0
F64Quotient(n, d) ==
    LET Rounded(fr) == F64Round(fr.limbs \o <<n \div d>>, fr.rem # 0)
    IN  Rounded(F64DivLimbs(n % d, d, F64FracLimbs, <<>>))

\* the float64 of a rational
F64(q) == [neg |-> q[1] < 0, mag |-> F64Quotient(Abs(q[1]), q[2])]

\* magnitudes compared
F64MagLt(x, y) ==
    LET Differ(S) == S # {} /\ (\E i \in S : x[i] < y[i] /\ \A j \in S : j <= i)
    IN  Differ({i \in 1..Len(x) : x[i] # y[i]})

F64IsZero(a) == \A i \in 1..Len(a.mag) : a.mag[i] = 0

F64Lt(a, b) ==
    IF F64IsZero(a) THEN ~F64IsZero(b) /\ ~b.neg
    ELSE IF F64IsZero(b) THEN a.neg
    ELSE IF a.neg # b.neg THEN a.neg
    ELSE IF a.neg THEN F64MagLt(b.mag, a.mag) ELSE F64MagLt(a.mag, b.mag)

F64Gt(a, b) == F64Lt(b, a)
F64Ge(a, b) == ~F64Lt(a, b)

\* the exact sum of two values of the window
F64Sum(a, b) ==
    IF a.neg = b.neg
    THEN [neg |-> a.neg, mag |-> F64AddLimbs(a.mag, b.mag, 1, 0, <<>>)]
    ELSE IF F64MagLt(a.mag, b.mag)
    THEN [neg |-> b.neg, mag |-> F64SubLimbs(b.mag, a.mag, 1, 0, <<>>)]
    ELSE [neg |-> a.neg, mag |-> F64SubLimbs(a.mag, b.mag, 1, 0, <<>>)]

\* the exact product of a float64 and a dyadic rational n / 2^s
F64Product(a, q) ==
    LET Log2(d) == CHOOSE s \in 0..F64LimbBits : 2 ^ s = d
    IN  [neg |-> a.neg # (q[1] < 0),
         mag |-> F64Halve(F64MulLimbs(a.mag, Abs(q[1]), 1, 0, <<>>), Log2(q[2]))]

F64Rounded(v) == [neg |-> v.neg, mag |-> F64Round(v.mag, FALSE)]

\* diff * ratio + base as the build computes it: the product rounded and then
\* the sum rounded, or the two fused into one operation and rounded once
F64MulAdd(diff, ratio, base, fused) ==
    LET Prod(p) == IF fused THEN p ELSE F64Rounded(p)
    IN  F64Rounded(F64Sum(Prod(F64Product(ratio, diff)), F64(base)))

\* math.Floor and math.Ceil of a non-negative value, as an int
F64Floor(a) == a.mag[F64Limbs]
F64Ceil(a) ==
    a.mag[F64Limbs] + (IF \E i \in 1..F64FracLimbs : a.mag[i] # 0 THEN 1 ELSE 0)

\* p.x + (q.x - p.x) * ratio along the edge from p to q at height y
EdgeXFloat(p, q, y, fused) ==
    LET Ratio(t) == [neg |-> FALSE, mag |-> F64Quotient(t[1], t[2])]
    IN  F64MulAdd(RSub(q[1], p[1]), Ratio(RDiv(RSub(y, p[2]), RSub(q[2], p[2]))),
                  p[1], fused)

\* triangleLR in float64
triangleLRFloat(tri, y, fused) ==
    LET Ordered(l, r) ==
            IF F64Gt(l, r) THEN [l |-> r, r |-> l, out |-> FALSE]
            ELSE [l |-> l, r |-> r, out |-> FALSE]
        Bounds(a, b, c) ==
            IF RLe(y, a[2]) THEN [l |-> F64(a[1]), r |-> F64(a[1]), out |-> TRUE]
            ELSE IF RGt(y, c[2]) THEN [l |-> F64(c[1]), r |-> F64(c[1]), out |-> TRUE]
            ELSE Ordered(IF RGe(y, a[2]) /\ RLe(y, b[2]) /\ RLt(a[2], b[2])
                         THEN EdgeXFloat(a, b, y, fused) ELSE EdgeXFloat(b, c, y, fused),
                         EdgeXFloat(a, c, y, fused))
        Sorted(s) == Bounds(s[1], s[2], s[3])
    IN  Sorted(SortByY(tri))

\* the pixels of one scanline whose centre x + 0.5 lies in [l, r)
SpanPixelsFloat(l, r, y) ==
    LET Centre(fx) == ~(F64Lt(fx, l) \/ F64Ge(fx, r))
    IN  {<<x, y>> : x \in {x \in F64Floor(l)..F64Ceil(r) : Centre(F64(RAdd(R(x), Half)))}}

RowNoAAFloat(lr, bw, y) ==
    LET Span(l, r) == IF F64Ge(l, r) THEN {} ELSE SpanPixelsFloat(l, r, y)
    IN  IF lr.out THEN {}
        ELSE IF (~F64Lt(lr.l, F64(R(0))) /\ F64Gt(lr.l, F64(R(bw))))
                \/ F64Lt(lr.r, F64(R(0))) THEN {}
        ELSE Span(IF F64Lt(lr.l, F64(R(0))) THEN F64(R(0)) ELSE lr.l,
                  IF F64Gt(lr.r, F64(R(bw))) THEN F64(R(bw)) ELSE lr.r)

\* the set of pixels fn is called on, in float64
fillTriangleNoAAFloat(tri, bw, bh, fused) ==
    UNION {RowNoAAFloat(triangleLRFloat(tri, RAdd(R(y), Half), fused), bw, y) :
             y \in ScanRows(<<Min3(tri[1][2], tri[2][2], tri[3][2]),
                              Max3(tri[1][2], tri[2][2], tri[3][2])>>, bh)}

(***************************************************************************)
(* The non-anti-aliased triangle scan on its own: fillTriangleNoAA over a  *)
(* triangle of ScanPoints and a buffer of ScanSizes, in float64, for a     *)
(* build that rounds the product of the edge interpolation and for one     *)
(* that fuses it with the sum.                                             *)
(***************************************************************************)
ScanW == 12
ScanH == 12
ScanSizes == {<<ScanW, ScanH>>, <<ScanW \div 3, ScanH \div 2>>}
ScanPoints ==
    {<<R(0), R(11)>>, <<R(1), R(10)>>, <<R(11), R(0)>>, <<R(0), R(5)>>,
     <<R(5), R(0)>>, <<R(1), R(4)>>, <<R(13), R(3)>>, <<R(-2), R(-3)>>,
     <<<<5, 2>>, <<7, 2>>>>}
ScanTriangles == {<<p1, p2, p3>> : p1 \in ScanPoints, p2 \in ScanPoints, p3 \in ScanPoints}

\* the divisors of the edge interpolation of triangleLR at height y
triangleLRDivisors(tri, y) ==
    LET Bounds(a, b, c) ==
            IF RLe(y, a[2]) \/ RGt(y, c[2]) THEN {}
            ELSE IF RGe(y, a[2]) /\ RLe(y, b[2]) /\ RLt(a[2], b[2])
            THEN {RSub(b[2], a[2]), RSub(c[2], a[2])}
            ELSE {RSub(c[2], b[2]), RSub(c[2], a[2])}
        Sorted(s) == Bounds(s[1], s[2], s[3])
    IN  Sorted(SortByY(tri))

\* the divisors of a whole scan
fillTriangleNoAADivisors(tri, bh) ==
    UNION {triangleLRDivisors(tri, RAdd(R(y), Half)) :
             y \in ScanRows(<<Min3(tri[1][2], tri[2][2], tri[3][2]),
                              Max3(tri[1][2], tri[2][2], tri[3][2])>>, bh)}

InitTriangle ==
    /\ \E size \in ScanSizes : NewBackend(size[1], size[2])
    /\ held = NoImage /\ simg = LoadedImage /\ cv = DefaultCanvas
    /\ \E tri \in ScanTriangles, fused \in BOOLEAN :
           call = [fn |-> "fillTriangleNoAA", tri |-> tri, fused |-> fused,
                   done |-> FALSE, pixels |-> {}, divisors |-> {}]

ScanTriangle ==
    /\ call.fn = "fillTriangleNoAA" /\ ~call.done
    /\ call' = [call EXCEPT !.done = TRUE,
                            !.pixels = fillTriangleNoAAFloat(call.tri, w, h, call.fused),
                            !.divisors = fillTriangleNoAADivisors(call.tri, h)]
    /\ UNCHANGED <<w, h, Image, clip, stencil, MSAA, held, op, old, blends, clipped, ops, simg, cv>>

NextTriangle == ScanTriangle

SpecTriangle == InitTriangle /\ [][NextTriangle]_vars

(***************************************************************************)
(* The blur on its own: box3 over an image of BlurDims with a blur size of *)
(* BlurSizes, and the single passes box3x and box3y with a radius of       *)
(* 0..MaxRadius.  call holds the call and, once done, what it returned;    *)
(* for a single pass also the running sum and the sample counter at each   *)
(* evaluation of the average.                                              *)
(***************************************************************************)
BlurW == 4
BlurH == 3
MaxRadius == 4
BlurDims == {<<1, 1>>, <<1, BlurH>>, <<BlurW, 1>>, <<2, 2>>, <<BlurW, BlurH>>}
BlurImageIds == 1..2
BlurImage(bw, bh, k) == SourceOf(0, 0, bw, bh, k).pix
BlurSizes == {R(0), Half, R(1), <<3, 2>>, R(2), <<5, 2>>, R(3), <<15, 4>>}

\* the sliding loop of BoxLoop, recording position, running sum and sample
\* counter where the average is taken
RECURSIVE BoxLoopTrace(_, _, _, _, _, _)
BoxLoopTrace(line, size, x, sum, samples, acc) ==
    LET Enter(right, sum1, samples1, out) ==
            IF right < Len(line)
            THEN BoxLoopTrace(line, size, x + 1, AddCol(sum1, line[right + 1]), samples1 + 1, out)
            ELSE BoxLoopTrace(line, size, x + 1, sum1, samples1, out)
        Leave(left, out) ==
            IF left >= 0
            THEN Enter((x + 1) + size, SubCol(sum, line[left + 1]), samples - 1, out)
            ELSE Enter((x + 1) + size, sum, samples, out)
        Write(out) == IF x >= Len(line) - 1 THEN out ELSE Leave(x - size, out)
    IN  Write(Append(acc, [x |-> x, sum |-> sum, samples |-> samples]))

\* the trace of one line: of the sliding loop, or the one sum of the whole
\* line when the radius reaches its length
BoxLineTrace(line, size) ==
    IF size >= Len(line)
    THEN <<[x |-> 0, sum |-> SumLine(line, 1, Len(line)), samples |-> Len(line)]>>
    ELSE BoxLoopTrace(line, size, 0, SumLine(line, 1, size + 1), size + 1, <<>>)

\* the lines box3x and box3y work on
RowsOf(pix, bw, bh) ==
    Stored([y \in 0..(bh - 1) |-> Stored([i \in 1..bw |-> pix[<<i - 1, y>>]])])
ColumnsOf(pix, bw, bh) ==
    Stored([x \in 0..(bw - 1) |-> Stored([i \in 1..bh |-> pix[<<x, i - 1>>]])])

BlurCalls ==
    {[fn |-> "box3", w |-> d[1], h |-> d[2], pix |-> BlurImage(d[1], d[2], k), size |-> s,
      done |-> FALSE, result |-> <<>>, sizes |-> <<>>] :
        d \in BlurDims, k \in BlurImageIds, s \in BlurSizes}
    \cup {[fn |-> f, w |-> d[1], h |-> d[2], pix |-> BlurImage(d[1], d[2], k), size |-> r,
           done |-> FALSE, result |-> <<>>, lines |-> <<>>, trace |-> <<>>] :
        f \in {"box3x", "box3y"}, d \in BlurDims, k \in BlurImageIds, r \in 0..MaxRadius}

InitBlur ==
    /\ NewBackend(Width, Height) /\ held = NoImage /\ simg = LoadedImage /\ cv = DefaultCanvas
    /\ call \in BlurCalls

Box3Apply ==
    /\ call.fn = "box3" /\ ~call.done
    /\ call' = [call EXCEPT !.done = TRUE,
                            !.result = box3(call.pix, call.size, call.w, call.h),
                            !.sizes = BoxSizes(call.size)]
    /\ UNCHANGED <<w, h, Image, clip, stencil, MSAA, held, op, old, blends, clipped, ops, simg, cv>>

Box3xApply ==
    /\ call.fn = "box3x" /\ ~call.done
    /\ call' = [call EXCEPT !.done = TRUE,
                            !.result = box3x(call.pix, call.size, call.w, call.h),
                            !.lines = RowsOf(call.pix, call.w, call.h),
                            !.trace = Stored([y \in 0..(call.h - 1) |->
                                         BoxLineTrace(RowsOf(call.pix, call.w, call.h)[y], call.size)])]
    /\ UNCHANGED <<w, h, Image, clip, stencil, MSAA, held, op, old, blends, clipped, ops, simg, cv>>

Box3yApply ==
    /\ call.fn = "box3y" /\ ~call.done
    /\ call' = [call EXCEPT !.done = TRUE,
                            !.result = box3y(call.pix, call.size, call.w, call.h),
                            !.lines = ColumnsOf(call.pix, call.w, call.h),
                            !.trace = Stored([x \in 0..(call.w - 1) |->
                                         BoxLineTrace(ColumnsOf(call.pix, call.w, call.h)[x], call.size)])]
    /\ UNCHANGED <<w, h, Image, clip, stencil, MSAA, held, op, old, blends, clipped, ops, simg, cv>>

NextBlur == Box3Apply \/ Box3xApply \/ Box3yApply

SpecBlur == InitBlur /\ [][NextBlur]_vars

(***************************************************************************)
(* The non-anti-aliased quad scan on its own: fillQuadNoAA over the        *)
(* parallelograms with an origin of QuadOrigins, a left edge and a top     *)
(* edge of QuadEdges, on the Width x Height buffer.                        *)
(***************************************************************************)
QuadOrigins == {Pt(8, 8), Pt(0, 16), Pt(16, 0), Pt(3, 3), Pt(20, 12)}
QuadEdges == {Pt(0, 16), Pt(16, 0), Pt(16, 16), Pt(16, -16), Pt(-8, 12), Pt(0, 18), Pt(18, 0)}

\* the parallelogram <<corner0, corner1, corner2, corner3>>
Parallelogram(o, leftv, topv) ==
    << o, <<RAdd(o[1], leftv[1]), RAdd(o[2], leftv[2])>>,
       <<RAdd(RAdd(o[1], leftv[1]), topv[1]), RAdd(RAdd(o[2], leftv[2]), topv[2])>>,
       <<RAdd(o[1], topv[1]), RAdd(o[2], topv[2])>> >>

ScanQuads ==
    {quad \in {Parallelogram(o, lv, tv) : o \in QuadOrigins, lv \in QuadEdges, tv \in QuadEdges} :
        quadArea(quad) # R(0)}

InitQuad ==
    /\ NewBackend(Width, Height) /\ held = NoImage /\ simg = LoadedImage /\ cv = DefaultCanvas
    /\ \E quad \in ScanQuads :
           call = [fn |-> "fillQuadNoAA", quad |-> quad, done |-> FALSE, samples |-> {}]

ScanQuadNoAA ==
    /\ call.fn = "fillQuadNoAA" /\ ~call.done
    /\ call' = [call EXCEPT !.done = TRUE, !.samples = fillQuadNoAA(call.quad, w, h)]
    /\ UNCHANGED <<w, h, Image, clip, stencil, MSAA, held, op, old, blends, clipped, ops, simg, cv>>

NextQuad == ScanQuadNoAA

SpecQuad == InitQuad /\ [][NextQuad]_vars

(***************************************************************************)
(* Any MSAA level: the caller sets b.MSAA to a level of 1..MaxLevel and    *)
(* calls Fill, DrawImage and FillImageMask.  fillTriangleMSAA and          *)
(* fillQuadMSAA keep the bounds of the sub-scanlines of a row in           *)
(* var l, r [5]float64 and store into l[step], r[step] for                 *)
(* step = 0..msaaLevel: an index past the array is a run-time panic, which *)
(* ends the call where it stands and, not being recovered, the program.    *)
(* call holds the last paint call and how it ended.                        *)
(***************************************************************************)
MSAAStoreLen == 5
MaxLevel == 6

MSAAGeoms ==
    Geoms \o << \* a triangle below the buffer
                <<Pt(0, 40), Pt(16, 40), Pt(0, 56)>> >>
MSAAGeomIds == 1..Len(MSAAGeoms)
MSAAQuads ==
    Quads \o << \* a quad above the buffer
                <<Pt(0, -24), Pt(0, -8), Pt(16, -8), Pt(16, -24)>> >>
MSAAQuadIds == 1..Len(MSAAQuads)

\* the indices of l and r that fillTriangleMSAA stores into
fillTriangleMSAASteps(tri, n, bh) ==
    IF ScanRows(<<Min3(tri[1][2], tri[2][2], tri[3][2]),
                  Max3(tri[1][2], tri[2][2], tri[3][2])>>, bh) = {}
    THEN {} ELSE 0..n

\* the indices of l and r that fillQuadMSAA stores into
fillQuadMSAASteps(quad, n, bh) ==
    IF ScanRows(QuadYs(quad), bh) = {} THEN {} ELSE 0..n

\* an index out of the range of l and r
IndexPanics(steps) == \E i \in steps : i >= MSAAStoreLen


fillTrianglesPanics(pts, n, bh) ==
    LET Some(tris) ==
            \E i \in 1..Len(tris) : IndexPanics(fillTriangleMSAASteps(tris[i], n, bh))
    IN  n > 0 /\ Some(iterateTriangles(pts))

fillQuadPanics(quad, n, bh) == n > 0 /\ IndexPanics(fillQuadMSAASteps(quad, n, bh))

\* the scans of the calls that end without a panic
MSAATriScanTable ==
    Stored([k \in {c \in MSAAGeomIds \X TfIds \X (0..MaxLevel) :
                      ~fillTrianglesPanics(FillPts(MSAAGeoms[c[1]], Tfs[c[2]]), c[3], Height)} |->
        ScanTris(FillPts(MSAAGeoms[k[1]], Tfs[k[2]]), k[3], Width, Height)])

MSAAQuadScanTable ==
    Stored([k \in {c \in MSAAQuadIds \X (0..MaxLevel) :
                      ~fillQuadPanics(MSAAQuads[c[1]], c[2], Height)} |->
        ScanQuad(MSAAQuads[k[1]], k[2], Width, Height)])

\* the state a panic in the first scanned row leaves: the stencil cleared,
\* nothing painted yet, and for a blurred fill the blank blur target in
\* place of the framebuffer
PanicInFill(img, sten, style, bw, bh) ==
    [img |-> IF RGt(style.blur, R(0)) THEN Blank(bw, bh) ELSE img,
     stencil |-> clearStencil(sten), blends |-> Zeros(bw, bh)]

PanicInQuad(img, sten, bw, bh) ==
    [img |-> img, stencil |-> clearStencil(sten), blends |-> Zeros(bw, bh)]

InitMSAA ==
    /\ NewBackend(Width, Height) /\ held = NoImage /\ simg = LoadedImage /\ cv = DefaultCanvas
    /\ call = [fn |-> "NewBackend", outcome |-> "done", level |-> 0]

Running == call.outcome # "panic"

SetLevel(n) ==
    /\ Running
    /\ SetMSAA(n)

\* a paint call ended: the backend as it leaves it, and how it ended
Ended(st, o, fn, panics) ==
    /\ Image' = st.img
    /\ stencil' = st.stencil
    /\ blends' = st.blends
    /\ op' = o
    /\ old' = Image
    /\ ops' = ops + 1
    /\ call' = [fn |-> fn, outcome |-> IF panics THEN "panic" ELSE "done", level |-> MSAA]
    /\ UNCHANGED <<w, h, clip, MSAA, held, clipped, simg, cv>>

FillAtLevel(sid, g, t) ==
    /\ Running
    /\ Ended(IF fillTrianglesPanics(FillPts(MSAAGeoms[g], Tfs[t]), MSAA, h)
             THEN PanicInFill(Image, stencil, Styles[sid], w, h)
             ELSE FillWith(Image, clip, stencil, MSAA, MSAATriScanTable[<<g, t, MSAA>>],
                           Styles[sid], w, h),
             Op("Fill", g, t, sid, 0, FALSE, MSAA), "Fill",
             fillTrianglesPanics(FillPts(MSAAGeoms[g], Tfs[t]), MSAA, h))

DrawImageAtLevel(q) ==
    /\ Running
    /\ Ended(IF ~simg.deleted /\ fillQuadPanics(MSAAQuads[q], MSAA, h)
             THEN PanicInQuad(Image, stencil, w, h)
             ELSE DrawImageWith(Image, clip, stencil, MSAA, simg,
                                <<R(0), R(0), R(SourceImage.w), R(SourceImage.h)>>,
                                MSAAQuads[q], MSAAQuadScanTable[<<q, MSAA>>], w, h),
             Op("DrawImage", 0, 0, 0, q, FALSE, MSAA), "DrawImage",
             ~simg.deleted /\ fillQuadPanics(MSAAQuads[q], MSAA, h))

FillImageMaskAtLevel(sid, q) ==
    /\ Running
    /\ Ended(IF fillQuadPanics(MSAAQuads[q], MSAA, h)
             THEN PanicInQuad(Image, stencil, w, h)
             ELSE FillImageMaskWith(Image, clip, stencil, MSAA, Styles[sid], MaskImage,
                                    MSAAQuadScanTable[<<q, MSAA>>], w, h),
             Op("FillImageMask", 0, 0, sid, q, FALSE, MSAA), "FillImageMask",
             fillQuadPanics(MSAAQuads[q], MSAA, h))

NextMSAA ==
    \/ \E n \in 1..MaxLevel : SetLevel(n)
    \/ ops < MaxOps /\ \E sid \in StyleIds, g \in MSAAGeomIds, t \in TfIds : FillAtLevel(sid, g, t)
    \/ ops < MaxOps /\ \E q \in MSAAQuadIds : DrawImageAtLevel(q)
    \/ ops < MaxOps /\ \E sid \in MaskStyleIds, q \in MSAAQuadIds : FillImageMaskAtLevel(sid, q)

SpecMSAA == InitMSAA /\ [][NextMSAA]_vars

(***************************************************************************)
(* Properties.  They read the state and the history variables: op is the   *)
(* operation that led to the state, old the framebuffer it started from.   *)
(***************************************************************************)
PaintKinds == {"Fill", "DrawImage", "FillImageMask", "Clear"}
Pixels == PixelsOf(w, h)

\* C1: a paint operation (Fill with any style and blur radius, DrawImage,
\* FillImageMask, Clear) leaves every pixel whose clip-mask value is zero
\* as it was before the operation.
ClipMaskRespected ==
    op.kind \in PaintKinds => \A p \in Pixels : clip[p] = 0 => Image[p] = old[p]

\* the pixels the rasteriser reports for the last Fill: those fn is called on,
\* and with MSAA also those it collects sub-samples for
FullOf(scan, n) == IF n > 0 THEN scan.full ELSE scan
PartOf(scan, n) == IF n > 0 THEN {<<s[1], s[2]>> : s \in scan.part} ELSE {}
FillScans == TriScans(op.g, op.t, op.msaa)
FillFull == UNION {FullOf(FillScans[i], op.msaa) : i \in 1..Len(FillScans)}
FillCovered == FillFull \cup UNION {PartOf(FillScans[i], op.msaa) : i \in 1..Len(FillScans)}
FillStyle == Styles[op.sid]
\* the pixels more than one triangle of the point list reports
FillOverlap ==
    {p \in FillCovered :
        \E i, j \in 1..Len(FillScans) :
            /\ i # j
            /\ p \in FullOf(FillScans[i], op.msaa) \cup PartOf(FillScans[i], op.msaa)
            /\ p \in FullOf(FillScans[j], op.msaa) \cup PartOf(FillScans[j], op.msaa)}

\* C2: in a Fill (either value of canOverlap, whatever operations came
\* before) every clip-admitted pixel covered by the geometry is blended exactly
\* once and no other pixel is blended; without blur a pixel painted whole is
\* the paint colour mixed once over what was there, as a fill by one triangle
\* would leave it.
BlendedOnce ==
    op.kind = "Fill" =>
        \A p \in Pixels :
            /\ blends[p] = IF p \in FillCovered /\ clip[p] # 0 THEN 1 ELSE 0
            /\ (p \in FillFull /\ clip[p] # 0 /\ FillStyle.blur = R(0)) =>
                   Image[p] = mix(fillFunc(FillStyle, R(p[1]), R(p[2])), old[p])

\* a second operation fills the overlapping triangles over pixels the first
\* operation painted, and a pixel both triangles cover is blended once
BlendedOnceWitness ==
    /\ op.kind = "Fill" /\ op.g = 1 /\ op.overlap /\ ops = 2
    /\ \E p \in FillOverlap : clip[p] # 0 /\ old[p] # Transparent /\ blends[p] = 1

\* the pixels Clip marks for a point list: those its rasterisation reports
ClipCovered(g) == UNION {TriScans(g, 1, 0)[i] : i \in 1..Len(TriScans(g, 1, 0))}
Admitted(mask) == {p \in DOMAIN mask : mask[p] # 0}

\* C3: since the last ClearClip or SetSize the clip mask admits exactly the
\* pixels covered by every point list passed to Clip, in whatever order and
\* with whatever paint operations in between, and until the next ClearClip
\* or SetSize no step adds a pixel to the admitted set.
ClipIsIntersection ==
    /\ [](Admitted(clip) = {p \in Pixels : \A g \in clipped : p \in ClipCovered(g)})
    /\ [][op'.kind \notin {"ClearClip", "SetSize"} =>
              Admitted(clip') \subseteq Admitted(clip)]_vars

\* a paint operation has drawn and two different point lists are clipped:
\* the mask is not empty and smaller than the coverage of either
ClipIsIntersectionWitness ==
    /\ op.kind = "Clip" /\ Cardinality(clipped) = 2 /\ old # Blank(w, h)
    /\ Admitted(clip) # {}
    /\ \A g \in clipped : Admitted(clip) # ClipCovered(g)

\* C4: for a rectangle (x, y, w, h) inside the framebuffer, putting the image
\* GetImageData(x, y, w, h) returned back at (x, y) leaves every pixel of the
\* rectangle as it was.
RoundTripKeepsRegion ==
    ( /\ op.kind = "PutImageData" /\ op.src = "held"
      /\ call.fn = "GetImageData" /\ op.x = call.x /\ op.y = call.y
      /\ call.x + call.w <= w /\ call.y + call.h <= h )
    => \A p \in Pixels :
           Inside(p, Rect(call.x, call.y, call.x + call.w, call.y + call.h)) =>
               Image[p] = old[p]

\* source-over in straight alpha on 8-bit channels: with as = src[4] / 255 and
\* ad = dest[4] / 255, OverWeight / 255^2 is the output alpha as + ad * (1 - as)
OverWeight(src, dest) == 255 * src[4] + dest[4] * (255 - src[4])
OverAlpha(src, dest) == Round(<<OverWeight(src, dest), 255>>)
OverChannel(src, dest, i) ==
    Round(<<255 * src[i] * src[4] + dest[i] * dest[4] * (255 - src[4]), OverWeight(src, dest)>>)

\* C5: mix(src, dst) is source-over compositing in straight alpha: the output
\* alpha is as + ad * (1 - as) and each output colour channel is
\* (cs * as + cd * ad * (1 - as)) / output alpha, rounded to the nearest integer
\* (a colour of output alpha 0 has no defined channels).
MixIsSourceOver ==
    (call.fn = "mix" /\ call.done) =>
        /\ call.result[4] = OverAlpha(call.src, call.dest)
        /\ OverWeight(call.src, call.dest) # 0 =>
               \A i \in 1..3 : call.result[i] = OverChannel(call.src, call.dest, i)

\* plane geometry, apart from the rasteriser: pt lies in the closed triangle
Cross(a, b, pt) ==
    RSub(RMul(RSub(b[1], a[1]), RSub(pt[2], a[2])), RMul(RSub(b[2], a[2]), RSub(pt[1], a[1])))
InTriangle(pt, tri) ==
    \/ /\ RGe(Cross(tri[1], tri[2], pt), R(0))
       /\ RGe(Cross(tri[2], tri[3], pt), R(0))
       /\ RGe(Cross(tri[3], tri[1], pt), R(0))
    \/ /\ RLe(Cross(tri[1], tri[2], pt), R(0))
       /\ RLe(Cross(tri[2], tri[3], pt), R(0))
       /\ RLe(Cross(tri[3], tri[1], pt), R(0))
InGeometry(pt, pts) ==
    \E i \in 1..Len(iterateTriangles(pts)) : InTriangle(pt, iterateTriangles(pts)[i])

\* the sampling positions of a pixel: its centre without MSAA, its
\* (n + 1) x (n + 1) sub-samples at level n
SamplesOf(p, n) ==
    IF n = 0 THEN {<<RAdd(R(p[1]), Half), RAdd(R(p[2]), Half)>>}
    ELSE {<<RAdd(R(p[1]), SubOffset(n, kx)), RAdd(R(p[2]), SubOffset(n, ky))>> :
             kx \in 0..n, ky \in 0..n}

\* per point list, transform and level: the pixels with a sampling position
\* in the geometry, and those with every sampling position in it
TouchedTable ==
    Stored([k \in GeomIds \X TfIds \X (0..MaxMSAA) \X PixelsOf(Width, Height) |->
        \E pt \in SamplesOf(k[4], k[3]) : InGeometry(pt, FillPts(Geoms[k[1]], Tfs[k[2]]))])
InsideTable ==
    Stored([k \in GeomIds \X TfIds \X (0..MaxMSAA) \X PixelsOf(Width, Height) |->
        \A pt \in SamplesOf(k[4], k[3]) : InGeometry(pt, FillPts(Geoms[k[1]], Tfs[k[2]]))])
FillTouched == {p \in Pixels : TouchedTable[<<op.g, op.t, op.msaa, p>>]}

\* the reach of a style's blur: the sum of the three box radii
BlurReach(blur) ==
    IF RGt(blur, R(0)) THEN BoxSizes(blur)[1] + BoxSizes(blur)[2] + BoxSizes(blur)[3] ELSE 0
ReachTable == Stored([sid \in StyleIds |-> BlurReach(Styles[sid].blur)])
Near(p, q, reach) == Abs(p[1] - q[1]) <= reach /\ Abs(p[2] - q[2]) <= reach
\* the pixels out of the reach of every pixel of S
Beyond(S, reach) == {p \in Pixels : \A q \in S : ~Near(p, q, reach)}

\* C6: a Fill leaves unchanged every pixel none of whose sampling positions
\* lies in a triangle of the point list and which, when the blur radius is
\* positive, is farther than the sum of the three box radii, in x or in y,
\* from every pixel that has one (the box passes spread a pixel over the
\* square of that radius, so the pixels farther in x and in y are among them).
FillFrame ==
    op.kind = "Fill" =>
        \A p \in Beyond(FillTouched, ReachTable[op.sid]) : Image[p] = old[p]

\* a blurred Fill over a painted framebuffer: the blur changes a pixel outside
\* the geometry, and a painted pixel out of its reach keeps its value
FillFrameWitness ==
    /\ op.kind = "Fill" /\ RGt(FillStyle.blur, R(0))
    /\ \E q \in Pixels \ FillTouched : Image[q] # old[q]
    /\ \E p \in Beyond(FillTouched, ReachTable[op.sid]) :
           old[p] # Transparent /\ Image[p] = old[p]

\* per quad and level: the pixels with a sampling position in the quad, and
\* those with every sampling position in it
QuadTouchedTable ==
    Stored([k \in QuadIds \X (0..MaxMSAA) \X PixelsOf(Width, Height) |->
        \E pt \in SamplesOf(k[3], k[2]) : InGeometry(pt, Quads[k[1]])])
QuadInsideTable ==
    Stored([k \in QuadIds \X (0..MaxMSAA) \X PixelsOf(Width, Height) |->
        \A pt \in SamplesOf(k[3], k[2]) : InGeometry(pt, Quads[k[1]])])

\* the pixels of the last paint operation's geometry: all sampling positions
\* inside, and at least one inside
OpInside ==
    IF op.kind = "Fill" THEN {p \in Pixels : InsideTable[<<op.g, op.t, op.msaa, p>>]}
    ELSE {p \in Pixels : QuadInsideTable[<<op.q, op.msaa, p>>]}
OpTouched ==
    IF op.kind = "Fill" THEN FillTouched
    ELSE {p \in Pixels : QuadTouchedTable[<<op.q, op.msaa, p>>]}

\* the framebuffer the last paint operation leaves when it runs with MSAA = n
\* from the same framebuffer and clip mask
RunWithMSAA(n) ==
    IF op.kind = "Fill"
    THEN FillResult(old, clip, Zeros(w, h), n, op.g, op.t, op.sid, w, h).img
    ELSE IF op.kind = "DrawImage"
    THEN DrawImageResult(old, clip, Zeros(w, h), n, LoadedImage,
                         <<R(0), R(0), R(SourceImage.w), R(SourceImage.h)>>, op.q, w, h).img
    ELSE FillImageMaskResult(old, clip, Zeros(w, h), n, op.sid, MaskImage, op.q, w, h).img

\* C7: after a Fill, DrawImage or FillImageMask run at an MSAA level N >= 1,
\* every pixel all of whose (N+1) x (N+1) sub-sample positions lie inside the
\* geometry has the value the same operation gives it with MSAA = 0.  (Stated
\* for fills without blur: a blur mixes the neighbours into every pixel.)
FullPixelsAsNoAA ==
    ( /\ op.kind \in {"Fill", "DrawImage", "FillImageMask"}
      /\ op.msaa >= 1
      /\ op.kind = "Fill" => FillStyle.blur = R(0) )
    => \A p \in OpInside : Image[p] = RunWithMSAA(0)[p]

\* the sub-samples the last paint operation collected (msaaPixels), the
\* pixels it painted whole, and the paint colour at a collected sub-sample
OpPart ==
    IF op.msaa = 0 THEN {}
    ELSE IF op.kind = "Fill" THEN UNION {FillScans[i].part : i \in 1..Len(FillScans)}
    ELSE QuadScans(op.q, op.msaa).part
OpFull ==
    IF op.kind = "Fill" THEN FillFull
    ELSE {<<s[1], s[2]>> : s \in FullOf(QuadScans(op.q, op.msaa), op.msaa)}
SampleColour(s) ==
    IF op.kind = "Fill" THEN fillFunc(FillStyle, s[3], s[4])
    ELSE IF op.kind = "DrawImage"
    THEN DrawImageColor(LoadedImage, <<R(0), R(0), R(SourceImage.w), R(SourceImage.h)>>,
                        Quads[op.q], s[5], s[6])
    ELSE MaskColor(Styles[op.sid], MaskImage, s[3], s[4], s[5], s[6])
SamplesAt(p) == {s \in OpPart : s[1] = p[1] /\ s[2] = p[2]}
\* the clip-admitted pixels resolved from sub-samples
PartialPixels == {p \in Pixels \ OpFull : clip[p] # 0 /\ SamplesAt(p) # {}}

RECURSIVE ChannelTotal(_, _)
ChannelTotal(S, i) ==
    IF S = {} THEN 0
    ELSE LET Rest(s) == SampleColour(s)[i] + ChannelTotal(S \ {s}, i)
         IN  Rest(CHOOSE s \in S : TRUE)
\* the colours at the sub-samples of S summed per channel and divided by d
SamplesOver(S, d) ==
    << U8(ChannelTotal(S, 1) \div d), U8(ChannelTotal(S, 2) \div d),
       U8(ChannelTotal(S, 3) \div d), U8(ChannelTotal(S, 4) \div d) >>
ResolvedOp ==
    /\ op.kind \in {"Fill", "DrawImage", "FillImageMask"}
    /\ op.msaa >= 1
    /\ op.kind = "Fill" => FillStyle.blur = R(0)

\* C8 (as claimed): with MSAA N >= 1 the colour composited into a partially
\* covered pixel is the sum of the paint colours at its in-coverage
\* sub-samples divided by the number of in-coverage sub-samples.
PartialIsMeanOfCovered ==
    ResolvedOp =>
        \A p \in PartialPixels :
            Image[p] = mix(SamplesOver(SamplesAt(p), Cardinality(SamplesAt(p))), old[p])

\* C8 (amended): with MSAA N >= 1 the colour composited into a partially
\* covered pixel is the sum of the paint colours at its in-coverage
\* sub-samples divided by the number (N+1) x (N+1) of all its sub-samples.
PartialIsSumOverAll ==
    ResolvedOp =>
        \A p \in PartialPixels :
            Image[p] = mix(SamplesOver(SamplesAt(p), (op.msaa + 1) * (op.msaa + 1)), old[p])

\* DrawImage resolves a pixel with some but not all of its sub-samples
\* covered over a painted framebuffer
PartialIsSumOverAllWitness ==
    /\ ResolvedOp /\ op.kind = "DrawImage"
    /\ \E p \in PartialPixels :
           /\ Cardinality(SamplesAt(p)) < (op.msaa + 1) * (op.msaa + 1)
           /\ old[p] # Transparent
           /\ Image[p] # old[p]

\* a gradient whose stops ascend by position, and the stop that brackets pos
\* from below (the next one brackets it from above)
Ascending(g) == \A i \in 1..(Len(g) - 1) : RLe(g[i].pos, g[i + 1].pos)
Bracket(g, pos) ==
    CHOOSE i \in 1..(Len(g) - 1) : RLe(g[i].pos, pos) /\ RLt(pos, g[i + 1].pos)
\* the exact linear interpolation of channel i between stops b and a at pos
Interpolated(b, a, pos, i) ==
    RAdd(R(b.col[i]),
         RDiv(RMul(R(a.col[i] - b.col[i]), RSub(pos, b.pos)), RSub(a.pos, b.pos)))
Nearest(c, x) == RLe(RAbs(RSub(R(c), x)), Half)
BlackToWhite == <<[pos |-> R(0), col |-> Black], [pos |-> R(1), col |-> White]>>

\* C9: for a gradient with ascending stops ColorAt(pos) is transparent for no
\* stop, the colour of a single stop, the first colour below the first stop,
\* the last colour at or above the last stop, and else, per channel, the linear
\* interpolation between the two bracketing stops rounded to the nearest
\* integer, with no division by zero; with two stops at 0 and 1 it returns the
\* first colour at 0 and below, the last at 1 and above, and for black to white
\* a grey within 2/255 of the middle at 0.5.
ColorAtInterpolates ==
    (call.fn = "ColorAt" /\ call.done /\ Ascending(call.g)) =>
        /\ R(0) \notin call.divisors
        /\ IF Len(call.g) = 0 THEN call.result = Transparent
           ELSE IF Len(call.g) = 1 THEN call.result = call.g[1].col
           ELSE IF RLt(call.pos, call.g[1].pos) THEN call.result = call.g[1].col
           ELSE IF RGe(call.pos, call.g[Len(call.g)].pos)
                THEN call.result = call.g[Len(call.g)].col
           ELSE \A i \in 1..4 :
                    Nearest(call.result[i],
                            Interpolated(call.g[Bracket(call.g, call.pos)],
                                         call.g[Bracket(call.g, call.pos) + 1], call.pos, i))
        /\ (Len(call.g) = 2 /\ call.g[1].pos = R(0) /\ call.g[2].pos = R(1)) =>
               /\ RLe(call.pos, R(0)) => call.result = call.g[1].col
               /\ RGe(call.pos, R(1)) => call.result = call.g[2].col
        /\ (call.g = BlackToWhite /\ call.pos = Half) =>
               \A i \in 1..3 : Abs(2 * call.result[i] - 255) <= 4

\* ColorAt has interpolated between the second and third of three ascending
\* stops and returned a colour that is neither stop's
ColorAtInterpolatesWitness ==
    /\ call.fn = "ColorAt" /\ call.done /\ Ascending(call.g) /\ Len(call.g) = 3
    /\ RGt(call.pos, call.g[2].pos) /\ RLt(call.pos, call.g[3].pos)
    /\ call.divisors # {}
    /\ call.result \notin {call.g[2].col, call.g[3].col}

\* the last Fill drew an axis-aligned rectangle given as 4 points with an
\* opaque solid colour while the clip mask admitted every pixel
OpaqueRectFill ==
    /\ op.kind = "Fill" /\ op.g \in RectGeomIds
    /\ FillStyle.kind = "solid" /\ FillStyle.color[4] = 255
    /\ Admitted(clip) = Pixels
RectPts == FillPts(Geoms[op.g], Tfs[op.t])
\* pt lies strictly inside the rectangle spanned by the corners pts[1] and pts[3]
InRect(pt, pts) ==
    /\ RLt(RMin(pts[1][1], pts[3][1]), pt[1]) /\ RLt(pt[1], RMax(pts[1][1], pts[3][1]))
    /\ RLt(RMin(pts[1][2], pts[3][2]), pt[2]) /\ RLt(pt[2], RMax(pts[1][2], pts[3][2]))
CentreOf(p) == <<RAdd(R(p[1]), Half), RAdd(R(p[2]), Half)>>

\* C10 (as claimed): after ClearClip, a Fill of an axis-aligned rectangle given
\* as 4 points with an opaque solid colour c sets every pixel whose centre
\* lies inside the rectangle to exactly c, whatever was there before.
RectFillSetsCentres ==
    OpaqueRectFill =>
        \A p \in Pixels : InRect(CentreOf(p), RectPts) => Image[p] = FillStyle.color

\* C10 (amended): after ClearClip, a Fill without blur of an axis-aligned
\* rectangle given as 4 points with an opaque solid colour c sets every pixel
\* all of whose sampling positions (the centre without MSAA, the sub-samples
\* with MSAA) lie inside the rectangle to exactly c, whatever was there before.
RectFillSetsInside ==
    (OpaqueRectFill /\ FillStyle.blur = R(0)) =>
        \A p \in Pixels :
            (\A pt \in SamplesOf(p, op.msaa) : InRect(pt, RectPts)) =>
                Image[p] = FillStyle.color

\* with MSAA on, a rectangle with fractional edges is filled over a painted
\* framebuffer: a pixel on the shared diagonal with every sub-sample inside
\* changes to c, and a pixel the edge cuts, its centre inside, does not
RectFillSetsInsideWitness ==
    /\ OpaqueRectFill /\ FillStyle.blur = R(0) /\ op.msaa >= 1 /\ op.g = 3
    /\ \E p \in Pixels :
           /\ p[1] = p[2]
           /\ \A pt \in SamplesOf(p, op.msaa) : InRect(pt, RectPts)
           /\ old[p] \notin {Transparent, FillStyle.color}
           /\ Image[p] = FillStyle.color
    /\ \E p \in Pixels : InRect(CentreOf(p), RectPts) /\ Image[p] # FillStyle.color

(***************************************************************************)
(* Linear gradients.                                                       *)
(***************************************************************************)
GradientFill == op.kind = "FillLinearGradient"
GradientStyle == GradStyles[op.sid]
GradientScans == GradScans(op.g, op.msaa)
GradientFull == UNION {FullOf(GradientScans[i], op.msaa) : i \in 1..Len(GradientScans)}
GradientCovered ==
    GradientFull \cup UNION {PartOf(GradientScans[i], op.msaa) : i \in 1..Len(GradientScans)}

\* the scalar projection of pt - p0 onto the axis p0 -> p1, divided by the
\* axis length: ((pt - p0) . (p1 - p0)) / |p1 - p0|^2
AxisParam(style, pt) ==
    LET Dot(a, b) == RAdd(RMul(a[1], b[1]), RMul(a[2], b[2]))
        Ratio(axis) ==
            RDiv(Dot(<<RSub(pt[1], style.from[1]), RSub(pt[2], style.from[2])>>, axis),
                 Dot(axis, axis))
    IN  Ratio(<<RSub(style.to[1], style.from[1]), RSub(style.to[2], style.from[2])>>)

\* blending ColorAt(t) of pixel p, t taken at the pixel's integer position
GradientAt(p) ==
    LET Over(c) == IF c[4] > 0 THEN mix(c, old[p]) ELSE old[p]
    IN  Over(ColorAt(GradientStyle.stops, AxisParam(GradientStyle, <<R(p[1]), R(p[2])>>)))

\* the scenario: (0,0) black to (10,0) white filled over x in [0,10] leaves
\* the pixels it covers at x = 5 within 2 of 127 per channel
GradientScenario ==
    (GradientFill /\ op.sid = 1 /\ op.g = 1) =>
        /\ \E p \in GradientCovered : p[1] = 5
        /\ \A p \in GradientCovered : p[1] = 5 =>
               \A i \in 1..3 : Image[p][i] >= 125 /\ Image[p][i] <= 129

BoundsMin(img) ==
    CHOOSE p \in DOMAIN img.pix : \A q \in DOMAIN img.pix : p[1] <= q[1] /\ p[2] <= q[2]

\* the sum of channel i over the 2x2 block of img that pixel p of the next level covers
BlockSum(img, at, p, i) ==
    img.pix[<<at[1] + 2 * p[1], at[2] + 2 * p[2]>>][i]
    + img.pix[<<at[1] + 2 * p[1] + 1, at[2] + 2 * p[2]>>][i]
    + img.pix[<<at[1] + 2 * p[1], at[2] + 2 * p[2] + 1>>][i]
    + img.pix[<<at[1] + 2 * p[1] + 1, at[2] + 2 * p[2] + 1>>][i]

\* next is the 2x2 box-downsample of img: half the size, rounded down, and each
\* channel of each pixel within one of the mean of its block
IsBoxDownsample(next, img) ==
    /\ next.w = img.w \div 2 /\ next.h = img.h \div 2
    /\ DOMAIN next.pix = PixelsOf(next.w, next.h)
    /\ \A p \in DOMAIN next.pix : \A i \in 1..4 :
           /\ 4 * next.pix[p][i] > BlockSum(img, BoundsMin(img), p, i) - 4
           /\ 4 * next.pix[p][i] < BlockSum(img, BoundsMin(img), p, i) + 4

\* C12: after LoadImage and any Replace calls the pyramid is that of the most
\* recent source: level 0 is the source, each further level is the 2x2
\* box-downsample of the one before, and levels are added exactly while both
\* dimensions of the last level exceed 1 (so no level of an earlier source remains).
PyramidOfLastSource ==
    /\ simg.mips[1] = Sources[call.src]
    /\ \A k \in 1..(Len(simg.mips) - 1) :
           /\ simg.mips[k].w > 1 /\ simg.mips[k].h > 1
           /\ IsBoxDownsample(simg.mips[k + 1], simg.mips[k])
    /\ simg.mips[Len(simg.mips)].w <= 1 \/ simg.mips[Len(simg.mips)].h <= 1

(***************************************************************************)
(* Shadows.  In SpecShadow the shadow state of cv is the same in every     *)
(* state of a run, and old is the framebuffer before the last call.        *)
(***************************************************************************)
\* the last step was a drawShadow call
ShadowCalled == call.fn = "drawShadow" /\ call.at = ops
ShadowOff ==
    cv.shadowColor[4] = 0 \/ (cv.shadowOffsetX = R(0) /\ cv.shadowOffsetY = R(0))
BadMaskCall == ShadowCalled /\ call.masked /\ Len(Geoms[call.g]) # 4

\* C13 (as claimed): drawShadow called with a mask and a number of points
\* other than 4 panics, in any canvas state.
MaskNeedsFourPoints == BadMaskCall => call.outcome = "panic"

\* C13 (amended): drawShadow called with a mask and a number of points other
\* than 4, on a canvas whose shadow alpha is not zero and whose shadow offset
\* is not (0,0), panics: it makes no backend call and paints nothing.
MaskNeedsFourPointsIfShadowOn ==
    (BadMaskCall /\ ~ShadowOff) =>
        call.outcome = "panic" /\ call.backend = "none" /\ Image = old

\* a masked call with 3 or 6 points has panicked over a painted framebuffer
MaskNeedsFourPointsIfShadowOnWitness ==
    /\ BadMaskCall /\ ~ShadowOff /\ call.outcome = "panic"
    /\ Image # Blank(w, h)

\* C17: drawShadow is a no-op when the shadow alpha is zero or the shadow
\* offset is (0,0): the call returns without a backend call and leaves the
\* framebuffer, the clip mask, the canvas and the caller's points as they were.
ShadowOffIsNoOp ==
    [][(call'.fn = "drawShadow" /\ call'.at = ops' /\ ops' # ops /\ ShadowOff) =>
          /\ call'.outcome = "return" /\ call'.backend = "none"
          /\ Image' = Image /\ clip' = clip /\ cv' = cv
          /\ call'.pts = Geoms[call'.g]]_vars

\* drawShadow has returned at once, with and without a mask, on a canvas with
\* an opaque shadow colour and offset (0,0), over a clipped or painted backend
ShadowOffIsNoOpWitness ==
    /\ ShadowCalled /\ ShadowOff /\ cv.shadowColor[4] = 255
    /\ call.outcome = "return" /\ call.backend = "none"
    /\ (Image # Blank(w, h) \/ clip # Opaque(w, h))

(***************************************************************************)
(* Masked fills.                                                           *)
(***************************************************************************)
\* the mask alpha at the parametric position (u, v) of the destination quad
MaskAlphaAt(mask, u, v) ==
    AlphaAt(mask, Trunc(RMul(R(mask.w), u)), Trunc(RMul(R(mask.h), v)))

\* colour c, its alpha scaled by the mask alpha m, composited over d
GatedOver(c, m, d) ==
    LET Over(src) == IF src[4] > 0 THEN mix(src, d) ELSE d
    IN  Over([c EXCEPT ![4] = Round(Norm(c[4] * m, 255))])

\* C14: FillImageMask blends, at each pixel of the destination quad, the
\* style's colour gated by the mask alpha at the pixel's (u,v): mask alpha 0
\* leaves the pixel unchanged, 255 composites the colour with its own alpha,
\* a value in between scales the colour's contribution by mask alpha / 255.
MaskGatesColour ==
    (op.kind = "FillImageMask" /\ op.msaa = 0) =>
        \A s \in QuadScans(op.q, 0) :
            clip[<<s[1], s[2]>>] # 0 =>
                Image[<<s[1], s[2]>>] =
                    GatedOver(fillFunc(Styles[op.sid], RAdd(R(s[1]), Half), RAdd(R(s[2]), Half)),
                              MaskAlphaAt(MaskImage, s[3], s[4]), old[<<s[1], s[2]>>])

(***************************************************************************)
(* The triangle scan.                                                      *)
(***************************************************************************)
\* twice the signed area of (p, q, s)
Area2(p, q, s) ==
    RSub(RMul(RSub(q[1], p[1]), RSub(s[2], p[2])),
         RMul(RSub(q[2], p[2]), RSub(s[1], p[1])))

ZeroArea(tri) == REq(Area2(tri[1], tri[2], tri[3]), R(0))

RectCorners(bw, bh) ==
    {<<R(0), R(0)>>, <<R(bw), R(0)>>, <<R(0), R(bh)>>, <<R(bw), R(bh)>>}

\* the triangle and the rectangle [0, bw] x [0, bh] have no point in common:
\* an axis of the rectangle or an edge of the triangle separates them
TriangleOutside(tri, bw, bh) ==
    LET Apart(p, q, s) ==
            \/ RGt(Area2(p, q, s), R(0))
               /\ \A c \in RectCorners(bw, bh) : RLt(Area2(p, q, c), R(0))
            \/ RLt(Area2(p, q, s), R(0))
               /\ \A c \in RectCorners(bw, bh) : RGt(Area2(p, q, c), R(0))
    IN  \/ \A i \in 1..3 : RLt(tri[i][1], R(0))
        \/ \A i \in 1..3 : RGt(tri[i][1], R(bw))
        \/ \A i \in 1..3 : RLt(tri[i][2], R(0))
        \/ \A i \in 1..3 : RGt(tri[i][2], R(bh))
        \/ Apart(tri[1], tri[2], tri[3])
        \/ Apart(tri[2], tri[3], tri[1])
        \/ Apart(tri[3], tri[1], tri[2])

ScanDone == call.fn = "fillTriangleNoAA" /\ call.done

\* C15: the non-anti-aliased triangle scan divides by no zero in its edge
\* interpolation, reports only pixels with 0 <= x < width and 0 <= y < height,
\* and reports no pixel at all for a zero-area triangle or for a triangle
\* entirely outside the buffer
TriangleScanSafe ==
    ScanDone =>
        /\ R(0) \notin call.divisors
        /\ \A p \in call.pixels : p[1] \in 0..(w - 1) /\ p[2] \in 0..(h - 1)
        /\ (ZeroArea(call.tri) \/ TriangleOutside(call.tri, w, h)) => call.pixels = {}

(***************************************************************************)
(* The blur.                                                               *)
(***************************************************************************)
Box3Done == call.fn = "box3" /\ call.done

\* C16: blur with size 0 is the identity: box3(img, 0) returns an image equal
\* pixel for pixel to img, whatever the image size
BlurZeroIsIdentity ==
    Box3Done /\ call.size = R(0) =>
        /\ DOMAIN call.result = PixelsOf(call.w, call.h)
        /\ \A p \in PixelsOf(call.w, call.h) : call.result[p] = call.pix[p]

\* box3 with size 0 has run on an image several pixels wide and high whose
\* pixels differ
BlurZeroIsIdentityWitness ==
    /\ Box3Done /\ call.size = R(0)
    /\ call.w = BlurW /\ call.h = BlurH
    /\ call.pix[<<0, 0>>] # call.pix[<<1, 0>>]
    /\ call.pix[<<0, 0>>] # call.pix[<<0, 1>>]

\* three horizontal passes and then three vertical passes, of the radii s
ThreeAndThree(pix, s, bw, bh) ==
    box3y(box3y(box3y(box3x(box3x(box3x(pix, s[1], bw, bh), s[2], bw, bh), s[3], bw, bh),
                      s[1], bw, bh),
                s[2], bw, bh),
          s[3], bw, bh)

\* s holds the radii read off a size: its floor, one more if its fractional
\* part exceeds t1 / BlurThresholdDen, and one more if it exceeds
\* t2 / BlurThresholdDen
RadiiReadOff(s, size, t1, t2) ==
    /\ Len(s) = 3
    /\ RLe(R(s[1]), size) /\ RLt(size, R(s[1] + 1))
    /\ s[2] = s[1] + (IF FracExceeds(RSub(size, R(s[1])), t1) THEN 1 ELSE 0)
    /\ s[3] = s[1] + (IF FracExceeds(RSub(size, R(s[1])), t2) THEN 1 ELSE 0)

\* frac > 1/3 and frac > 2/3, as the claim words the thresholds
RadiiByThirds(s, size) ==
    /\ Len(s) = 3
    /\ RLe(R(s[1]), size) /\ RLt(size, R(s[1] + 1))
    /\ s[2] = s[1] + (IF RGt(RSub(size, R(s[1])), <<1, 3>>) THEN 1 ELSE 0)
    /\ s[3] = s[1] + (IF RGt(RSub(size, R(s[1])), <<2, 3>>) THEN 1 ELSE 0)

\* size * (1 - 1 / (size + 1)), the first statement of box3
Rescaled(size) == RDiv(RMul(size, size), RAdd(size, R(1)))

\* C18 as stated: for a blur size > 0 the blur is three horizontal passes
\* followed by three vertical passes whose radii are floor(size), one more if
\* the fractional part of size exceeds 1/3, and one more if it exceeds 2/3,
\* size being the blur radius of the fill style
BlurRadiiFromSize ==
    Box3Done /\ RGt(call.size, R(0)) =>
        /\ RadiiByThirds(call.sizes, call.size)
        /\ call.result = ThreeAndThree(call.pix, call.sizes, call.w, call.h)

\* C18 as amended: the radii are read off size * (1 - 1 / (size + 1)), not off
\* size, and the thresholds are 0.333333333 and 0.666666666
BlurRadiiFromRescaledSize ==
    Box3Done /\ RGt(call.size, R(0)) =>
        /\ RadiiReadOff(call.sizes, Rescaled(call.size), BlurThreshold1, BlurThreshold2)
        /\ call.result = ThreeAndThree(call.pix, call.sizes, call.w, call.h)

\* box3 has run with size 2, which rescales to 4/3: radii 1, 2, 1 and an
\* image that the blur changed
BlurRadiiFromRescaledSizeWitness ==
    /\ Box3Done /\ call.size = R(2)
    /\ call.sizes = <<1, 2, 1>>
    /\ call.w = BlurW /\ call.h = BlurH
    /\ call.result # call.pix

BoxPassDone == call.fn \in {"box3x", "box3y"} /\ call.done

\* the output of the pass at position i of line k
PassOutput(k, i) ==
    IF call.fn = "box3x" THEN call.result[<<i, k>>] ELSE call.result[<<k, i>>]

\* the window [max(0, i - r), min(n - 1, i + r)] of a line of length n
Window(i, r, n) == (IF i - r > 0 THEN i - r ELSE 0)..(IF i + r < n - 1 THEN i + r ELSE n - 1)

RECURSIVE SumOver(_, _)
SumOver(line, S) ==
    IF S = {} THEN <<0, 0, 0, 0>>
    ELSE LET Rest(i) == AddCol(SumOver(line, S \ {i}), line[i + 1])
         IN  Rest(CHOOSE i \in S : TRUE)

\* out is the mean sum / count rounded to a nearest integer, per channel
IsRoundedMean(out, sum, count) ==
    \A c \in 1..4 :
        /\ out[c] \in 0..255
        /\ 2 * (out[c] * count - sum[c]) <= count
        /\ 2 * (sum[c] - out[c] * count) <= count

\* C19: for a box pass of radius r >= 0 over a row (box3x) or a column (box3y)
\* of length n >= 1, the output at position i is per channel the rounded mean
\* of the input over the window [max(0, i - r), min(n - 1, i + r)]; wherever
\* the sliding loop takes an average, its running sum and its sample counter
\* are the sum and the number of pixels of that window, and the counter is
\* not zero
BoxPassIsWindowMean ==
    BoxPassDone =>
        \A k \in DOMAIN call.lines :
            /\ \A i \in 0..(Len(call.lines[k]) - 1) :
                   IsRoundedMean(PassOutput(k, i),
                                 SumOver(call.lines[k], Window(i, call.size, Len(call.lines[k]))),
                                 Cardinality(Window(i, call.size, Len(call.lines[k]))))
            /\ \A t \in DOMAIN call.trace[k] :
                   /\ call.trace[k][t].samples # 0
                   /\ call.trace[k][t].samples
                          = Cardinality(Window(call.trace[k][t].x, call.size, Len(call.lines[k])))
                   /\ call.trace[k][t].sum
                          = SumOver(call.lines[k],
                                    Window(call.trace[k][t].x, call.size, Len(call.lines[k])))
            /\ call.size < Len(call.lines[k]) =>
                   /\ Len(call.trace[k]) = Len(call.lines[k])
                   /\ \A t \in DOMAIN call.trace[k] : call.trace[k][t].x = t - 1

\* a horizontal pass of radius 1 has run over rows of BlurW pixels: the
\* window has two pixels at the ends and three in between, and the pass
\* changed the image
BoxPassIsWindowMeanWitness ==
    /\ BoxPassDone /\ call.fn = "box3x" /\ call.size = 1
    /\ call.w = BlurW /\ call.h = BlurH
    /\ call.trace[0][1].samples = 2 /\ call.trace[0][2].samples = 3
    /\ call.result # call.pix

(***************************************************************************)
(* The quad scan.                                                          *)
(***************************************************************************)
QuadScanDone == call.fn = "fillQuadNoAA" /\ call.done

\* pt lies in the convex quad: on one side of all four edges
InsideQuad(quad, pt) ==
    LET Sides(S) == (\A a \in S : RGe(a, R(0))) \/ (\A a \in S : RLe(a, R(0)))
    IN  Sides({Area2(quad[i], quad[(i % 4) + 1], pt) : i \in 1..4})

\* corner0 + u * (corner3 - corner0) + v * (corner1 - corner0)
QuadPoint(quad, u, v) ==
    << RAdd(quad[1][1], RAdd(RMul(u, RSub(quad[4][1], quad[1][1])),
                             RMul(v, RSub(quad[2][1], quad[1][1])))),
       RAdd(quad[1][2], RAdd(RMul(u, RSub(quad[4][2], quad[1][2])),
                             RMul(v, RSub(quad[2][2], quad[1][2])))) >>

InUnit(t) == RGe(t, R(0)) /\ RLe(t, R(1))

SameVec(a, b) == REq(a[1], b[1]) /\ REq(a[2], b[2])

Centre(s) == <<RAdd(R(s[1]), Half), RAdd(R(s[2]), Half)>>

\* C20: for a non-degenerate parallelogram quad, axis-aligned or rotated, the
\* non-anti-aliased quad scan reports only pixels whose centre lies inside
\* the quad, and the (u, v) it passes for each reported pixel lies in
\* [0,1] x [0,1] and satisfies
\* corner0 + u * (corner3 - corner0) + v * (corner1 - corner0) = pixel centre
QuadScanInside ==
    QuadScanDone =>
        \A s \in call.samples :
            /\ InsideQuad(call.quad, Centre(s))
            /\ InUnit(s[3]) /\ InUnit(s[4])
            /\ SameVec(QuadPoint(call.quad, s[3], s[4]), Centre(s))

\* C21: at every MSAA level N >= 1 set on the backend, a call of Fill,
\* DrawImage or FillImageMask runs to completion: it never ends in a
\* run-time panic.
MSAAPaintCompletes ==
    (call.fn \in {"Fill", "DrawImage", "FillImageMask"} /\ call.level >= 1)
        => call.outcome = "done"

=============================================================================
